---------------------------- MODULE Spec2Model ----------------------------
(***************************************************************************)
(* Verification model of the investment dashboard: the time-series         *)
(* resampler and the price statistics (src/lib/price.ts), the screening    *)
(* grid (src/lib/yahooFinanceApi.ts), the region detection, and the screen *)
(* route with its composite scores and the fetches it waits for.           *)
(*                                                                         *)
(* Numbers.  The TypeScript code works on IEEE doubles.  The model keeps   *)
(* every quantity exact:                                                   *)
(*   - money (marketCap, revenue, totalCash, operatingCashflow) is an      *)
(*     integer count of 1e8 currency units (one "oku");                    *)
(*   - decimals (returnOnEquity, roa, per, pbr, equityRatio, eps) are      *)
(*     integers in hundredths;                                             *)
(*   - a quotient a / b is the pair <<a, b>> with b >= 0 and is compared   *)
(*     by cross-multiplication; x / 0 is kept as the pair <<x, 0>> and     *)
(*     compared the way JavaScript compares Infinity and NaN.              *)
(* Dates.  A "YYYY-MM-DD" string is the triple <<y, m, d>>; a Date object  *)
(* is the number of hours since 2023-01-01T00:00:00Z; the runtime's UTC    *)
(* offset is the variable tz (hours east of Greenwich, no DST).            *)
(***************************************************************************)
EXTENDS Integers, Sequences, FiniteSets, TLC

VARIABLES
    \* ---- resampler (toWeekly / toMonthly) ----
    tz,               \* UTC offset of the runtime, in hours
    dailyPrices,      \* the Price[] handed to the resampler
    granularity,      \* "none" | "weekly" | "monthly": which resampler ran
    resampled,        \* result of the first call
    resampledAgain,   \* result of resampling the result once more
    rpc,              \* "start" | "once" | "twice"
    \* ---- screening grid and long-term suitability (screen route) ----
    statsValue,       \* the StockStats snapshot
    reportCurrency,   \* "USD" | "JPY"
    exchangeRate,     \* exchange rate used by the route
    screening,        \* the per-stock result of screenStocks
    reportedResults,  \* screeningResults: the ten ratings the route reports
    reportedValues,   \* actualValues: the metric values the route reports
    longTermSuitability,
    spc,              \* position of the screening computation
    \* ---- tenbagger potential ----
    isJapanese,       \* isJP
    priceWindow,      \* priceStats: {minPrice, maxPrice, currentPrice}
    recentGrowth,     \* recent revenue growth, in percent
    tenbaggerCalls,   \* the calls made so far: <<[revenueGrowth, result]>>
    \* ---- calculateStats ----
    statistics,       \* what calculateStats returned
    cpc,              \* "start" | "done"
    \* ---- region detection (isJapaneseStock / normalizeJapaneseSymbol) ----
    symbolGiven,      \* the symbol as typed, a sequence of characters
    normalized,       \* results of the successive normalizeJapaneseSymbol calls
    classified,       \* the pairs <<symbol, isJapaneseStock(symbol)>> computed
    \* ---- the screen route GET ----
    upstream,         \* what Yahoo Finance answers to the four requests
    requestSymbol,    \* let symbol = searchParams.get('symbol')
    settled,          \* outcome of each promise handed to Promise.allSettled
    response,         \* the NextResponse returned
    gpc,              \* "start" | "awaiting" | "done"
    \* ---- SimpleCache ----
    cache,            \* the Map of the cache: key -> {data, timestamp}
    now,              \* Date.now(), in milliseconds
    cacheLog,         \* the calls made so far, with their time and result
    \* ---- the page component (Home) ----
    selectedSymbol,   \* the state symbol
    timeframe,        \* the state timeframe
    pricesState,      \* the state prices
    loading,          \* the state loading
    pageError,        \* the state error
    inputValue,       \* the state inputValue
    candidates,       \* the state candidates
    timer,            \* the pending setTimeout of the search effect, if any
    searchesInFlight, \* /api/search requests that have not settled
    pricesInFlight,   \* /api/prices requests that have not settled
    priceRequests,    \* every /api/prices request issued, in order
    searchLog,        \* every /api/search request issued, in order
    pageClock,        \* the time, in milliseconds
    inputChangedAt,   \* when inputValue last changed
    picked,           \* handleSelect ran and the user has not typed since
    userEvents,       \* number of user events so far
    \* ---- the prices route GET ----
    pricesRequest,    \* the query parameters symbol and timeframe
    historical,       \* what yahooFinance.historical answers
    historicalSymbol, \* the symbol yahooFinance.historical was called with
    historicalCalls,  \* number of calls of yahooFinance.historical
    pricesResponse,   \* the NextResponse returned
    ppc,              \* "start" | "awaiting" | "done"
    \* ---- the sector aggregation script (main) ----
    histories,        \* what Yahoo Finance answers for each symbol
    results,          \* the changes of the symbols fetched so far
    loopIndex,        \* i of the fetch loop, counted from 1
    sectorAverages,   \* the average changes of every sector
    rankings,         \* what createRankings returned and the script saves
    mpc               \* "fetching" | "done"

resampleVars == <<tz, dailyPrices, granularity, resampled, resampledAgain, rpc>>

screenVars == <<statsValue, reportCurrency, exchangeRate, screening,
                reportedResults, reportedValues, longTermSuitability, spc>>

tenbaggerVars == <<isJapanese, priceWindow, recentGrowth, tenbaggerCalls>>

calcVars == <<statistics, cpc>>

symbolVars == <<symbolGiven, normalized, classified>>

routeVars == <<upstream, requestSymbol, settled, response, gpc>>

cacheVars == <<cache, now, cacheLog>>

sectorVars == <<histories, results, loopIndex, sectorAverages, rankings, mpc>>

pricesRouteVars == <<pricesRequest, historical, historicalSymbol, historicalCalls,
                     pricesResponse, ppc>>

pageVars == <<selectedSymbol, timeframe, pricesState, loading, pageError, inputValue,
              candidates, timer, searchesInFlight, pricesInFlight, priceRequests,
              searchLog, pageClock, inputChangedAt, picked, userEvents>>

vars == <<resampleVars, screenVars, tenbaggerVars, calcVars, symbolVars, routeVars,
         cacheVars,
         pageVars,
         pricesRouteVars,
         sectorVars>>

---------------------------------------------------------------------------
(* Bounds of the resampler inputs *)

MaxLen == 3

\* calendar dates offered to the resampler: the week from Monday 2024-01-29
\* to Sunday 2024-02-04, which spans two months, the Monday after it, and a
\* Wednesday whose week began in the year before
InputDates ==
    { <<2024, 1, 29>>, <<2024, 1, 31>>, <<2024, 2, 1>>,
      <<2024, 2, 4>>,  <<2024, 2, 5>>,  <<2025, 1, 1>> }

\* two prices tell apart points that share a date
InputPrices == {1, 2}

Offsets == { -5, 0, 9 }

---------------------------------------------------------------------------
(* Calendar arithmetic behind the JavaScript Date object *)

IsLeap(y) == (y % 4 = 0 /\ y % 100 # 0) \/ (y % 400 = 0)

DaysInYear(y) == IF IsLeap(y) THEN 366 ELSE 365

DaysInMonth(y, m) ==
    IF m = 2 THEN (IF IsLeap(y) THEN 29 ELSE 28)
    ELSE IF m \in {4, 6, 9, 11} THEN 30 ELSE 31

RECURSIVE DaysBeforeYear(_)
DaysBeforeYear(y) ==
    IF y <= 2023 THEN 0 ELSE DaysBeforeYear(y - 1) + DaysInYear(y - 1)

RECURSIVE DaysBeforeMonth(_, _)
DaysBeforeMonth(y, m) ==
    IF m <= 1 THEN 0 ELSE DaysBeforeMonth(y, m - 1) + DaysInMonth(y, m - 1)

\* days from 2023-01-01 to the calendar date <<y, m, d>>
DayNumber(date) ==
    DaysBeforeYear(date[1]) + DaysBeforeMonth(date[1], date[2]) + (date[3] - 1)

RECURSIVE CivilFrom(_, _, _)
CivilFrom(y, m, n) ==
    IF n >= DaysInYear(y) /\ m = 1 THEN CivilFrom(y + 1, 1, n - DaysInYear(y))
    ELSE IF n >= DaysInMonth(y, m) THEN CivilFrom(y, m + 1, n - DaysInMonth(y, m))
    ELSE <<y, m, n + 1>>

\* the calendar date of day number n (n >= 0)
CivilOf(n) == CivilFrom(2023, 1, n)

\* new Date(date + "T00:00:00"): local midnight, as hours since the epoch
parseDate(date) == DayNumber(date) * 24 - tz

getTime(t) == t

\* local calendar day number of the instant t
LocalDay(t) == (t + tz) \div 24

\* Date.prototype.getDay: 0 = Sunday (2023-01-01 is a Sunday)
getDay(t) == LocalDay(t) % 7

\* Date.prototype.toISOString().slice(0, 10): the UTC calendar date
toISODate(t) == CivilOf(t \div 24)

\* d.setDate(d.getDate() - diff); key = d.toISOString().slice(0, 10)
getWeekKey(t) ==
    LET day  == getDay(t)
        diff == (day + 6) % 7
        d    == t - diff * 24
    IN  toISODate(d)

\* `${getFullYear()}-${pad(getMonth() + 1)}`
getMonthKey(t) ==
    LET c == CivilOf(LocalDay(t)) IN <<c[1], c[2]>>

---------------------------------------------------------------------------
(* toWeekly / toMonthly *)

\* the keys of the Map, in insertion order (first occurrence in ks)
RECURSIVE MapKeys(_)
MapKeys(ks) ==
    IF ks = <<>> THEN <<>>
    ELSE LET front == MapKeys(SubSeq(ks, 1, Len(ks) - 1))
             k     == ks[Len(ks)]
         IN  IF \E i \in 1..Len(front) : front[i] = k THEN front
             ELSE Append(front, k)

\* map.get(k): the points pushed under key k, in input order
RECURSIVE MapGet(_, _, _)
MapGet(prices, ks, k) ==
    IF prices = <<>> THEN <<>>
    ELSE LET n    == Len(prices)
             rest == MapGet(SubSeq(prices, 1, n - 1), SubSeq(ks, 1, n - 1), k)
         IN  IF ks[n] = k THEN Append(rest, prices[n]) ELSE rest

\* insert p after the last element whose date is not later (stable)
RECURSIVE Insert(_, _)
Insert(sorted, p) ==
    IF sorted = <<>> THEN <<p>>
    ELSE LET n == Len(sorted)
         IN  IF getTime(parseDate(sorted[n].date)) - getTime(parseDate(p.date)) <= 0
             THEN Append(sorted, p)
             ELSE Append(Insert(SubSeq(sorted, 1, n - 1), p), sorted[n])

\* group.sort((a, b) => parseDate(a.date).getTime() - parseDate(b.date).getTime())
RECURSIVE SortByDate(_)
SortByDate(group) ==
    IF group = <<>> THEN <<>>
    ELSE Insert(SortByDate(SubSeq(group, 1, Len(group) - 1)), group[Len(group)])

\* sorted[sorted.length - 1]
LastOfFirst(sorted) == sorted[1]
LastOf(sorted) == sorted[Len(sorted)]

WeekKeys(prices) == [i \in 1..Len(prices) |-> getWeekKey(parseDate(prices[i].date))]

MonthKeys(prices) == [i \in 1..Len(prices) |-> getMonthKey(parseDate(prices[i].date))]

\* Array.from(map.values()).map(group => last of group sorted by date)
Representatives(prices, ks) ==
    LET keys == MapKeys(ks)
    IN  [j \in 1..Len(keys) |-> LastOf(SortByDate(MapGet(prices, ks, keys[j])))]

toWeeklySkipFirst(prices) ==
    LET rest == SubSeq(prices, 2, Len(prices))
    IN  Representatives(rest, WeekKeys(rest))
toWeekly(prices) == Representatives(prices, WeekKeys(prices))

toMonthlySkipFirst(prices) ==
    LET rest == SubSeq(prices, 2, Len(prices))
    IN  Representatives(rest, MonthKeys(rest))
toMonthly(prices) == Representatives(prices, MonthKeys(prices))

---------------------------------------------------------------------------
(* Exact arithmetic standing in for the doubles of the TypeScript code *)

\* the decimal literal w.hh as a count of hundredths
Dec(w, h) == w * 100 + h

\* a decimal field of a snapshot (kept in hundredths) as a quotient
Num(x) == <<x, 100>>

\* q * k
Times(q, k) == <<q[1] * k, q[2]>>

\* comparisons of the quotient q = n / d (d >= 0) with the decimal c, in
\* hundredths.  With d = 0 the quotient is +Infinity (n > 0), -Infinity
\* (n < 0) or NaN (n = 0), and every comparison with NaN is false.
Lt(q, c) == IF q[2] = 0 THEN q[1] < 0 ELSE 100 * q[1] <  c * q[2]
Le(q, c) == IF q[2] = 0 THEN q[1] < 0 ELSE 100 * q[1] <= c * q[2]
Gt(q, c) == IF q[2] = 0 THEN q[1] > 0 ELSE 100 * q[1] >  c * q[2]
Ge(q, c) == IF q[2] = 0 THEN q[1] > 0 ELSE 100 * q[1] >= c * q[2]

\* x || 0 on a number: 0 and NaN become 0
OrZero(q) == IF q[1] = 0 THEN <<0, 1>> ELSE q

---------------------------------------------------------------------------
(* Tier symbols.  Excellent is the double circle, Good the ideographic     *)
(* zero U+3007, Normal the triangle, Poor the cross; WhiteCircle is the    *)
(* look-alike U+25CB that the first revision of screenStocks returns.      *)

Excellent   == "excellent"
Good        == "good"
Normal      == "normal"
Poor        == "poor"
WhiteCircle == "white-circle"

Tiers == {Excellent, Good, Normal, Poor}

\* the keys of the ScreeningResult interface
FactorKeys ==
    {"marketCap", "roe", "psr", "cashRich", "positiveCF",
     "per", "pbr", "roa", "equityRatio", "eps"}

---------------------------------------------------------------------------
(* screenStocks, currency-aware revision *)

\* stat.marketCap / 1e9 and stat.marketCap / 1e8 (money is counted in 1e8)
InBillion(marketCap) == <<marketCap, 10>>
InOku(marketCap) == <<marketCap, 1>>

marketCapRating(stat, currency) ==
    IF currency = "JPY"
    THEN LET marketCapInOku == InOku(stat.marketCap)
         IN  IF Ge(marketCapInOku, Dec(5000, 0)) /\ Le(marketCapInOku, Dec(50000, 0))
             THEN Excellent
             ELSE IF Ge(marketCapInOku, Dec(1000, 0)) /\ Le(marketCapInOku, Dec(150000, 0))
             THEN Good
             ELSE IF Ge(marketCapInOku, Dec(500, 0)) /\ Le(marketCapInOku, Dec(1000, 0))
             THEN Normal
             ELSE Poor
    ELSE LET marketCapInBillion == InBillion(stat.marketCap)
         IN  IF Ge(marketCapInBillion, Dec(50, 0)) /\ Le(marketCapInBillion, Dec(500, 0))
             THEN Excellent
             ELSE IF Ge(marketCapInBillion, Dec(10, 0)) /\ Le(marketCapInBillion, Dec(1000, 0))
             THEN Good
             ELSE IF Ge(marketCapInBillion, Dec(5, 0)) /\ Le(marketCapInBillion, Dec(10, 0))
             THEN Normal
             ELSE Poor

roeRating(stat) ==
    LET roe == Times(OrZero(Num(stat.returnOnEquity)), 100)
    IN  IF Ge(roe, Dec(15, 0)) THEN Excellent
        ELSE IF Ge(roe, Dec(10, 0)) THEN Good
        ELSE IF Ge(roe, Dec(5, 0)) THEN Normal
        ELSE Poor

psrRating(stat) ==
    LET psr == IF stat.revenue > 0 THEN <<stat.marketCap, stat.revenue>> ELSE <<0, 1>>
    IN  IF Lt(psr, Dec(1, 0)) THEN Excellent
        ELSE IF Lt(psr, Dec(2, 0)) THEN Good
        ELSE IF Lt(psr, Dec(3, 0)) THEN Normal
        ELSE Poor

cashRichInclusive(stat) ==
    LET cashRich == IF stat.marketCap > 0
                    THEN <<stat.totalCash * 100, stat.marketCap>> ELSE <<0, 1>>
    IN  IF Ge(cashRich, Dec(50, 0)) THEN Excellent
        ELSE IF Ge(cashRich, Dec(20, 0)) THEN Good
        ELSE IF Ge(cashRich, Dec(10, 0)) THEN Normal
        ELSE Poor
cashRichRating(stat) ==
    LET cashRich == IF stat.marketCap > 0
                    THEN <<stat.totalCash * 100, stat.marketCap>> ELSE <<0, 1>>
    IN  IF Gt(cashRich, Dec(50, 0)) THEN Excellent
        ELSE IF Gt(cashRich, Dec(20, 0)) THEN Good
        ELSE IF Gt(cashRich, Dec(10, 0)) THEN Normal
        ELSE Poor

positiveCFRating(stat) ==
    LET positiveCF == IF stat.marketCap > 0
                      THEN <<stat.operatingCashflow * 100, stat.marketCap>> ELSE <<0, 1>>
    IN  IF Gt(positiveCF, Dec(0, 0)) THEN Excellent
        ELSE IF Gt(positiveCF, 0 - Dec(10, 0)) THEN Good
        ELSE IF Gt(positiveCF, 0 - Dec(20, 0)) THEN Normal
        ELSE Poor

perRating(stat) ==
    LET per == OrZero(Num(stat.per))
    IN  IF Gt(per, Dec(0, 0)) /\ Le(per, Dec(15, 0)) THEN Excellent
        ELSE IF Le(per, Dec(20, 0)) THEN Good
        ELSE IF Le(per, Dec(30, 0)) THEN Normal
        ELSE Poor

pbrRating(stat) ==
    LET pbr == OrZero(Num(stat.pbr))
    IN  IF Lt(pbr, Dec(1, 0)) THEN Excellent
        ELSE IF Lt(pbr, Dec(2, 0)) THEN Good
        ELSE IF Lt(pbr, Dec(3, 0)) THEN Normal
        ELSE Poor

roaRatingStrict(stat) ==
    LET roa == Times(OrZero(Num(stat.roa)), 100)
    IN  IF Gt(roa, Dec(8, 0)) THEN Excellent
        ELSE IF Gt(roa, Dec(5, 0)) THEN Good
        ELSE IF Gt(roa, Dec(3, 0)) THEN Normal
        ELSE Poor
roaRating(stat) ==
    LET roa == Times(OrZero(Num(stat.roa)), 100)
    IN  IF Ge(roa, Dec(8, 0)) THEN Excellent
        ELSE IF Ge(roa, Dec(5, 0)) THEN Good
        ELSE IF Ge(roa, Dec(3, 0)) THEN Normal
        ELSE Poor

equityRatioRating(stat) ==
    LET equityRatio == OrZero(Num(stat.equityRatio))
    IN  IF Ge(equityRatio, Dec(60, 0)) THEN Excellent
        ELSE IF Ge(equityRatio, Dec(40, 0)) THEN Good
        ELSE IF Ge(equityRatio, Dec(20, 0)) THEN Normal
        ELSE Poor

epsRating(stat, currency) ==
    LET eps == OrZero(Num(stat.eps))
    IN  IF currency = "JPY"
        THEN IF Ge(eps, Dec(100, 0)) THEN Excellent
             ELSE IF Ge(eps, Dec(50, 0)) THEN Good
             ELSE IF Ge(eps, Dec(10, 0)) THEN Normal
             ELSE Poor
        ELSE IF Ge(eps, Dec(1, 0)) THEN Excellent
             ELSE IF Ge(eps, Dec(0, 50)) THEN Good
             ELSE IF Ge(eps, Dec(0, 10)) THEN Normal
             ELSE Poor

\* stats.map(stat => ({ symbol: stat.symbol, marketCap: ..., ..., eps: ... }))
screenStocks(stats, currency) ==
    [i \in 1..Len(stats) |->
        LET stat == stats[i]
        IN  [symbol      |-> stat.symbol,
             marketCap   |-> marketCapRating(stat, currency),
             roe         |-> roeRating(stat),
             psr         |-> psrRating(stat),
             cashRich    |-> cashRichRating(stat),
             positiveCF  |-> positiveCFRating(stat),
             per         |-> perRating(stat),
             pbr         |-> pbrRating(stat),
             roa         |-> roaRating(stat),
             equityRatio |-> equityRatioRating(stat),
             eps         |-> epsRating(stat, currency)]]

---------------------------------------------------------------------------
(* screenStocks, first revision (no currency parameter) *)

screenStocksLegacy(stats) ==
    [i \in 1..Len(stats) |->
        LET stock == stats[i]
            marketCapInBillions == InBillion(stock.marketCap)
            returnOnEquity == Num(stock.returnOnEquity)
            psr == <<stock.marketCap, stock.revenue>>
            \* totalCash > marketCap * f  as  totalCash / marketCap > f
            cashOverCap == <<stock.totalCash, stock.marketCap>>
            cfOverCap == <<stock.operatingCashflow, stock.marketCap>>
            per == Num(stock.per)
            pbr == Num(stock.pbr)
            roa == Num(stock.roa)
            equityRatio == Num(stock.equityRatio)
            eps == Num(stock.eps)
        IN  [marketCap |->
                IF Ge(marketCapInBillions, Dec(10, 0)) /\ Le(marketCapInBillions, Dec(100, 0))
                THEN Excellent
                ELSE IF Ge(marketCapInBillions, Dec(5, 0)) /\ Le(marketCapInBillions, Dec(200, 0))
                THEN WhiteCircle
                ELSE IF Ge(marketCapInBillions, Dec(1, 0)) /\ Lt(marketCapInBillions, Dec(5, 0))
                THEN Normal
                ELSE Poor,
             roe |->
                IF Gt(returnOnEquity, Dec(15, 0)) THEN Excellent
                ELSE IF Gt(returnOnEquity, Dec(10, 0)) THEN Good
                ELSE IF Gt(returnOnEquity, Dec(5, 0)) THEN Normal
                ELSE Poor,
             psr |->
                IF Lt(psr, Dec(1, 0)) THEN Excellent
                ELSE IF Lt(psr, Dec(2, 0)) THEN Good
                ELSE IF Lt(psr, Dec(3, 0)) THEN Normal
                ELSE Poor,
             cashRich |->
                IF Gt(cashOverCap, Dec(0, 40)) THEN Excellent
                ELSE IF Gt(cashOverCap, Dec(0, 20)) THEN Good
                ELSE IF Gt(cashOverCap, Dec(0, 10)) THEN Normal
                ELSE Poor,
             positiveCF |->
                IF stock.operatingCashflow > 0 THEN Excellent
                ELSE IF Gt(cfOverCap, 0 - Dec(0, 10)) THEN Good
                ELSE IF Gt(cfOverCap, 0 - Dec(0, 20)) THEN Normal
                ELSE Poor,
             per |->
                IF Gt(per, Dec(0, 0)) /\ Le(per, Dec(15, 0)) THEN Excellent
                ELSE IF Gt(per, Dec(15, 0)) /\ Le(per, Dec(20, 0)) THEN Good
                ELSE IF Gt(per, Dec(20, 0)) /\ Le(per, Dec(30, 0)) THEN Normal
                ELSE Poor,
             pbr |->
                IF Gt(pbr, Dec(0, 0)) /\ Lt(pbr, Dec(1, 0)) THEN Excellent
                ELSE IF Ge(pbr, Dec(1, 0)) /\ Lt(pbr, Dec(2, 0)) THEN Good
                ELSE IF Ge(pbr, Dec(2, 0)) /\ Lt(pbr, Dec(3, 0)) THEN Normal
                ELSE Poor,
             roa |->
                IF Ge(roa, Dec(5, 0)) THEN Excellent
                ELSE IF Ge(roa, Dec(3, 0)) THEN Good
                ELSE IF Ge(roa, Dec(1, 0)) THEN Normal
                ELSE Poor,
             equityRatio |->
                IF Ge(equityRatio, Dec(60, 0)) THEN Excellent
                ELSE IF Ge(equityRatio, Dec(40, 0)) THEN Good
                ELSE IF Ge(equityRatio, Dec(20, 0)) THEN Normal
                ELSE Poor,
             eps |->
                IF Ge(eps, Dec(1, 0)) THEN Excellent
                ELSE IF Ge(eps, Dec(0, 50)) THEN Good
                ELSE IF Ge(eps, Dec(0, 10)) THEN Normal
                ELSE Poor]]

---------------------------------------------------------------------------
(* The screen route: long-term suitability *)

\* Object.values(screeningResults).filter(v => pred(v)).length
CountIn(screeningResults, S) ==
    Cardinality({k \in DOMAIN screeningResults : screeningResults[k] \in S})

criticalItemsRoe == {"positiveCF", "roe"}
criticalItems == {"positiveCF", "equityRatio"}

ClassifyByCountsLoose(excellentCount, goodOrBetterCount, normalCount) ==
    IF goodOrBetterCount >= 5 \/ excellentCount >= 2 THEN Excellent
    ELSE IF goodOrBetterCount >= 3 \/ normalCount >= 4 THEN Good
    ELSE Normal
\* the count-based rules that follow the hard-fail test
ClassifyByCounts(excellentCount, goodOrBetterCount, normalCount) ==
    IF goodOrBetterCount >= 5 /\ excellentCount >= 2 THEN Excellent
    ELSE IF goodOrBetterCount >= 3 \/ normalCount >= 4 THEN Good
    ELSE Normal

evaluateLongTermSuitability(screeningResults, actualValues) ==
    LET excellentCount    == CountIn(screeningResults, {Excellent})
        goodOrBetterCount == CountIn(screeningResults, {Excellent, Good})
        normalCount       == CountIn(screeningResults, {Normal})
        hasCriticalFailure ==
            \E key \in criticalItems :
                key \in DOMAIN screeningResults /\ screeningResults[key] = Poor
    IN  IF hasCriticalFailure THEN Poor
        ELSE ClassifyByCounts(excellentCount, goodOrBetterCount, normalCount)

\* const screeningResults = { marketCap: screeningResultsArray[0].marketCap, ... }
ProjectScreeningResults(result) ==
    [marketCap   |-> result.marketCap,
     roe         |-> result.roe,
     psr         |-> result.psr,
     cashRich    |-> result.cashRich,
     positiveCF  |-> result.positiveCF,
     per         |-> result.per,
     pbr         |-> result.pbr,
     roa         |-> result.roa,
     equityRatio |-> result.equityRatio,
     eps         |-> result.eps]

\* const actualValues = { roe: statsValue.returnOnEquity * 100 || 0, ... }
ActualValues(stats, needsConversion, rate) ==
    [roe         |-> OrZero(Times(Num(stats.returnOnEquity), 100)),
     psr         |-> IF stats.revenue > 0
                     THEN <<stats.marketCap, stats.revenue>> ELSE <<0, 1>>,
     cashRich    |-> IF stats.marketCap > 0
                     THEN <<stats.totalCash * 100, stats.marketCap>> ELSE <<0, 1>>,
     positiveCF  |-> IF stats.marketCap > 0
                     THEN <<stats.operatingCashflow * 100, stats.marketCap>>
                     ELSE <<0, 1>>,
     per         |-> OrZero(Num(stats.per)),
     pbr         |-> OrZero(Num(stats.pbr)),
     roa         |-> OrZero(Times(Num(stats.roa), 100)),
     equityRatio |-> OrZero(Num(stats.equityRatio)),
     eps         |-> IF needsConversion
                     THEN Times(OrZero(Num(stats.eps)), rate)
                     ELSE OrZero(Num(stats.eps)),
     marketCap   |-> IF needsConversion
                     THEN stats.marketCap * rate
                     ELSE stats.marketCap]

---------------------------------------------------------------------------
(* The screen route: tenbagger potential.  Every sub-factor yields the     *)
(* points it adds to the score and the strings it pushes to details; a     *)
(* detail string is kept as <<tier mark, sub-factor>> (the formatted       *)
(* number is left out).                                                    *)

Part(points, pushed) == [points |-> points, details |-> pushed]

\* the check mark that tags the best tier in details
CheckMark == "check"

\* revenueGrowth === null
NoGrowth == [isNull |-> TRUE]
IsNull(revenueGrowth) == "isNull" \in DOMAIN revenueGrowth

cagrPartLowTop(cagr) ==
    IF cagr >= 35 THEN Part(20, << <<CheckMark, "cagr">> >>)
    ELSE IF cagr >= 25 THEN Part(22, << <<CheckMark, "cagr">> >>)
    ELSE IF cagr >= 15 THEN Part(12, << <<Good, "cagr">> >>)
    ELSE IF cagr >= 8 THEN Part(4, << <<Normal, "cagr">> >>)
    ELSE Part(1, << <<Poor, "cagr">> >>)
cagrPart(cagr) ==
    IF cagr >= 35 THEN Part(30, << <<CheckMark, "cagr">> >>)
    ELSE IF cagr >= 25 THEN Part(22, << <<CheckMark, "cagr">> >>)
    ELSE IF cagr >= 15 THEN Part(12, << <<Good, "cagr">> >>)
    ELSE IF cagr >= 8 THEN Part(4, << <<Normal, "cagr">> >>)
    ELSE Part(1, << <<Poor, "cagr">> >>)

recentPartMild(cagr, recent) ==
    IF recent >= cagr + 10 THEN Part(10, << <<CheckMark, "recent">> >>)
    ELSE IF recent >= cagr THEN Part(5, << <<Good, "recent">> >>)
    ELSE IF recent >= cagr - 15 THEN Part(0, << <<Normal, "recent">> >>)
    ELSE Part(0 - 5, << <<Poor, "recent">> >>)
recentPart(cagr, recent) ==
    IF recent >= cagr + 10 THEN Part(10, << <<CheckMark, "recent">> >>)
    ELSE IF recent >= cagr THEN Part(5, << <<Good, "recent">> >>)
    ELSE IF recent >= cagr - 15 THEN Part(0, << <<Normal, "recent">> >>)
    ELSE Part(0 - 10, << <<Poor, "recent">> >>)

growthPartPenalised(revenueGrowth) ==
    IF ~IsNull(revenueGrowth)
    THEN LET c == cagrPart(revenueGrowth.cagr)
             r == recentPart(revenueGrowth.cagr, revenueGrowth.recentGrowth)
         IN  Part(c.points + r.points, c.details \o r.details)
    ELSE Part(0 - 5, << <<Poor, "growth">> >>)
growthPart(revenueGrowth) ==
    IF ~IsNull(revenueGrowth)
    THEN LET c == cagrPart(revenueGrowth.cagr)
             r == recentPart(revenueGrowth.cagr, revenueGrowth.recentGrowth)
         IN  Part(c.points + r.points, c.details \o r.details)
    ELSE Part(0, << <<Poor, "growth">> >>)

marketCapPartExclusiveTop(marketCap, isJP) ==
    IF isJP
    THEN LET oku == InOku(marketCap)
         IN  IF Ge(oku, Dec(100, 0)) /\ Lt(oku, Dec(3000, 0))
             THEN Part(20, << <<CheckMark, "marketCap">> >>)
             ELSE IF Ge(oku, Dec(3000, 0)) /\ Le(oku, Dec(10000, 0))
             THEN Part(15, << <<Good, "marketCap">> >>)
             ELSE IF Ge(oku, Dec(10000, 0)) /\ Le(oku, Dec(50000, 0))
             THEN Part(8, << <<Normal, "marketCap">> >>)
             ELSE IF Gt(oku, Dec(50000, 0))
             THEN Part(0 - 8, << <<Poor, "marketCap">> >>)
             ELSE Part(0 - 3, << <<Normal, "marketCap">> >>)
    ELSE LET billion == InBillion(marketCap)
         IN  IF Ge(billion, Dec(0, 10)) /\ Lt(billion, Dec(15, 0))
             THEN Part(20, << <<CheckMark, "marketCap">> >>)
             ELSE IF Ge(billion, Dec(15, 0)) /\ Le(billion, Dec(200, 0))
             THEN Part(15, << <<Good, "marketCap">> >>)
             ELSE IF Ge(billion, Dec(200, 0)) /\ Le(billion, Dec(1000, 0))
             THEN Part(8, << <<Normal, "marketCap">> >>)
             ELSE IF Gt(billion, Dec(1000, 0))
             THEN Part(0 - 12, << <<Poor, "marketCap">> >>)
             ELSE Part(0 - 3, << <<Normal, "marketCap">> >>)
marketCapPart(marketCap, isJP) ==
    IF isJP
    THEN LET oku == InOku(marketCap)
         IN  IF Ge(oku, Dec(100, 0)) /\ Le(oku, Dec(3000, 0))
             THEN Part(20, << <<CheckMark, "marketCap">> >>)
             ELSE IF Ge(oku, Dec(3000, 0)) /\ Le(oku, Dec(10000, 0))
             THEN Part(15, << <<Good, "marketCap">> >>)
             ELSE IF Ge(oku, Dec(10000, 0)) /\ Le(oku, Dec(50000, 0))
             THEN Part(8, << <<Normal, "marketCap">> >>)
             ELSE IF Gt(oku, Dec(50000, 0))
             THEN Part(0 - 8, << <<Poor, "marketCap">> >>)
             ELSE Part(0 - 3, << <<Normal, "marketCap">> >>)
    ELSE LET billion == InBillion(marketCap)
         IN  IF Ge(billion, Dec(0, 10)) /\ Le(billion, Dec(15, 0))
             THEN Part(20, << <<CheckMark, "marketCap">> >>)
             ELSE IF Ge(billion, Dec(15, 0)) /\ Le(billion, Dec(200, 0))
             THEN Part(15, << <<Good, "marketCap">> >>)
             ELSE IF Ge(billion, Dec(200, 0)) /\ Le(billion, Dec(1000, 0))
             THEN Part(8, << <<Normal, "marketCap">> >>)
             ELSE IF Gt(billion, Dec(1000, 0))
             THEN Part(0 - 12, << <<Poor, "marketCap">> >>)
             ELSE Part(0 - 3, << <<Normal, "marketCap">> >>)

pricePositionPartInclusive(priceStats) ==
    LET priceMultiple == <<priceStats.currentPrice, priceStats.minPrice>>
    IN  IF Le(priceMultiple, Dec(1, 80)) THEN Part(15, << <<CheckMark, "pricePosition">> >>)
        ELSE IF Le(priceMultiple, Dec(3, 0)) THEN Part(10, << <<Good, "pricePosition">> >>)
        ELSE IF Le(priceMultiple, Dec(5, 0)) THEN Part(5, << <<Normal, "pricePosition">> >>)
        ELSE Part(0 - 2, << <<Poor, "pricePosition">> >>)
pricePositionPart(priceStats) ==
    LET priceMultiple == <<priceStats.currentPrice, priceStats.minPrice>>
    IN  IF Lt(priceMultiple, Dec(1, 80)) THEN Part(15, << <<CheckMark, "pricePosition">> >>)
        ELSE IF Lt(priceMultiple, Dec(3, 0)) THEN Part(10, << <<Good, "pricePosition">> >>)
        ELSE IF Lt(priceMultiple, Dec(5, 0)) THEN Part(5, << <<Normal, "pricePosition">> >>)
        ELSE Part(0 - 2, << <<Poor, "pricePosition">> >>)

roePartPenalised(roe) ==
    IF Ge(roe, Dec(20, 0)) THEN Part(10, << <<CheckMark, "roe">> >>)
    ELSE IF Ge(roe, Dec(15, 0)) THEN Part(7, << <<Good, "roe">> >>)
    ELSE IF Ge(roe, Dec(10, 0)) THEN Part(4, << <<Normal, "roe">> >>)
    ELSE IF Ge(roe, Dec(0, 0)) THEN Part(1, << <<Normal, "roe">> >>)
    ELSE Part(0 - 5, << <<Normal, "roe">> >>)
roePart(roe) ==
    IF Ge(roe, Dec(20, 0)) THEN Part(10, << <<CheckMark, "roe">> >>)
    ELSE IF Ge(roe, Dec(15, 0)) THEN Part(7, << <<Good, "roe">> >>)
    ELSE IF Ge(roe, Dec(10, 0)) THEN Part(4, << <<Normal, "roe">> >>)
    ELSE IF Ge(roe, Dec(0, 0)) THEN Part(1, << <<Normal, "roe">> >>)
    ELSE Part(0, << <<Normal, "roe">> >>)

cfMarginPart(cfMargin) ==
    IF Ge(cfMargin, Dec(15, 0)) THEN Part(5, << <<CheckMark, "cfMargin">> >>)
    ELSE IF Ge(cfMargin, Dec(5, 0)) THEN Part(3, <<>>)
    ELSE IF Ge(cfMargin, Dec(0, 0)) THEN Part(1, <<>>)
    ELSE Part(0, <<>>)

perPartStrict(per) ==
    IF Gt(per, Dec(0, 0)) /\ Le(per, Dec(25, 0)) THEN Part(10, << <<CheckMark, "per">> >>)
    ELSE IF Le(per, Dec(50, 0)) THEN Part(5, << <<Good, "per">> >>)
    ELSE IF Lt(per, Dec(100, 0)) THEN Part(2, << <<Normal, "per">> >>)
    ELSE IF Le(per, Dec(200, 0)) THEN Part(0 - 2, << <<Normal, "per">> >>)
    ELSE Part(0 - 5, << <<Poor, "per">> >>)
perPart(per) ==
    IF Gt(per, Dec(0, 0)) /\ Le(per, Dec(25, 0)) THEN Part(10, << <<CheckMark, "per">> >>)
    ELSE IF Le(per, Dec(50, 0)) THEN Part(5, << <<Good, "per">> >>)
    ELSE IF Le(per, Dec(100, 0)) THEN Part(2, << <<Normal, "per">> >>)
    ELSE IF Le(per, Dec(200, 0)) THEN Part(0 - 2, << <<Normal, "per">> >>)
    ELSE Part(0 - 5, << <<Poor, "per">> >>)

ratingOfLenient(score) ==
    IF score >= 60 THEN Excellent
    ELSE IF score >= 40 THEN Good
    ELSE IF score >= 20 THEN Normal
    ELSE Poor
ratingOf(score) ==
    IF score >= 60 THEN Excellent
    ELSE IF score >= 40 THEN Good
    ELSE IF score >= 25 THEN Normal
    ELSE Poor

evaluateTenbaggerPotential(actualValues, screeningResults, revenueGrowth, isJP, priceStats) ==
    LET parts == << growthPart(revenueGrowth),
                    marketCapPart(actualValues.marketCap, isJP),
                    pricePositionPart(priceStats),
                    roePart(actualValues.roe),
                    cfMarginPart(actualValues.positiveCF),
                    perPart(actualValues.per) >>
        score == parts[1].points + parts[2].points + parts[3].points
                 + parts[4].points + parts[5].points + parts[6].points
        details == parts[1].details \o parts[2].details \o parts[3].details
                   \o parts[4].details \o parts[5].details \o parts[6].details
    IN  [rating |-> ratingOf(score), score |-> score, details |-> details]

---------------------------------------------------------------------------
(* Values a component holds while another component is the one running *)

NoRecord == [none |-> TRUE]

ScenarioStat ==
    [symbol |-> "AAPL", returnOnEquity |-> 20, marketCap |-> 300, revenue |-> 200,
     totalCash |-> 150, operatingCashflow |-> 20, per |-> Dec(18, 0),
     pbr |-> Dec(4, 0), roa |-> 9, equityRatio |-> Dec(55, 0), eps |-> Dec(2, 10)]

IdleResample ==
    /\ tz = 0
    /\ dailyPrices = <<>>
    /\ granularity = "none"
    /\ resampled = <<>>
    /\ resampledAgain = <<>>
    /\ rpc = "idle"

IdleScreen ==
    /\ statsValue = ScenarioStat
    /\ reportCurrency = "USD"
    /\ exchangeRate = 1
    /\ screening = NoRecord
    /\ reportedResults = NoRecord
    /\ reportedValues = NoRecord
    /\ longTermSuitability = "none"
    /\ spc = "idle"

IdleTenbagger ==
    /\ isJapanese = FALSE
    /\ priceWindow = NoRecord
    /\ recentGrowth = 0
    /\ tenbaggerCalls = <<>>

IdleCalc ==
    /\ statistics = NoRecord
    /\ cpc = "idle"

IdleSymbol ==
    /\ symbolGiven = <<>>
    /\ normalized = <<>>
    /\ classified = {}

IdleRoute ==
    /\ upstream = NoRecord
    /\ requestSymbol = NoRecord
    /\ settled = NoRecord
    /\ response = NoRecord
    /\ gpc = "idle"

IdleCache ==
    /\ cache = <<>>
    /\ now = 0
    /\ cacheLog = <<>>

IdleSector ==
    /\ histories = NoRecord
    /\ results = <<>>
    /\ loopIndex = 0
    /\ sectorAverages = <<>>
    /\ rankings = NoRecord
    /\ mpc = "idle"

IdlePricesRoute ==
    /\ pricesRequest = NoRecord
    /\ historical = NoRecord
    /\ historicalSymbol = NoRecord
    /\ historicalCalls = 0
    /\ pricesResponse = NoRecord
    /\ ppc = "idle"

IdlePage ==
    /\ selectedSymbol = "AAPL"
    /\ timeframe = "daily"
    /\ pricesState = NoRecord
    /\ loading = FALSE
    /\ pageError = NoRecord
    /\ inputValue = ""
    /\ candidates = <<>>
    /\ timer = NoRecord
    /\ searchesInFlight = {}
    /\ pricesInFlight = {}
    /\ priceRequests = <<>>
    /\ searchLog = <<>>
    /\ pageClock = 0
    /\ inputChangedAt = 0
    /\ picked = FALSE
    /\ userEvents = 0

---------------------------------------------------------------------------
(* The resampler as a state machine *)

PricePoints ==
    [symbol : {"AAPL"}, price : InputPrices, date : InputDates]

RECURSIVE SeqsUpTo(_, _)
SeqsUpTo(S, n) ==
    IF n = 0 THEN { <<>> }
    ELSE LET shorter == SeqsUpTo(S, n - 1)
         IN  shorter \cup { Append(s, x) : s \in { t \in shorter : Len(t) = n - 1 }, x \in S }

InitResample ==
    /\ tz \in Offsets
    /\ dailyPrices \in SeqsUpTo(PricePoints, MaxLen)
    /\ granularity = "none"
    /\ resampled = <<>>
    /\ resampledAgain = <<>>
    /\ rpc = "start"
    /\ IdleScreen
    /\ IdleTenbagger
    /\ IdleCalc
    /\ IdleSymbol
    /\ IdleRoute
    /\ IdleCache
    /\ IdlePage
    /\ IdlePricesRoute
    /\ IdleSector

CallToWeekly ==
    /\ rpc = "start"
    /\ resampled' = toWeekly(dailyPrices)
    /\ granularity' = "weekly"
    /\ rpc' = "once"
    /\ UNCHANGED <<tz, dailyPrices, resampledAgain, screenVars, tenbaggerVars, calcVars, symbolVars, routeVars, cacheVars, pageVars, pricesRouteVars, sectorVars>>

CallToMonthly ==
    /\ rpc = "start"
    /\ resampled' = toMonthly(dailyPrices)
    /\ granularity' = "monthly"
    /\ rpc' = "once"
    /\ UNCHANGED <<tz, dailyPrices, resampledAgain, screenVars, tenbaggerVars, calcVars, symbolVars, routeVars, cacheVars, pageVars, pricesRouteVars, sectorVars>>

CallToWeeklyAgain ==
    /\ rpc = "once"
    /\ granularity = "weekly"
    /\ resampledAgain' = toWeekly(resampled)
    /\ rpc' = "twice"
    /\ UNCHANGED <<tz, dailyPrices, granularity, resampled, screenVars, tenbaggerVars, calcVars, symbolVars, routeVars, cacheVars, pageVars, pricesRouteVars, sectorVars>>

CallToMonthlyAgain ==
    /\ rpc = "once"
    /\ granularity = "monthly"
    /\ resampledAgain' = toMonthly(resampled)
    /\ rpc' = "twice"
    /\ UNCHANGED <<tz, dailyPrices, granularity, resampled, screenVars, tenbaggerVars, calcVars, symbolVars, routeVars, cacheVars, pageVars, pricesRouteVars, sectorVars>>

NextResample ==
    \/ CallToWeekly
    \/ CallToMonthly
    \/ CallToWeeklyAgain
    \/ CallToMonthlyAgain

SpecResample == InitResample /\ [][NextResample]_vars

---------------------------------------------------------------------------
(* The screening grid as a state machine: a snapshot is screened by either *)
(* revision of screenStocks, and the route builds its report from the      *)
(* reportCurrency-aware one.                                                     *)

\* snapshots: decimals in hundredths, money in units of 1e8
Stats ==
    [symbol            : {"AAPL"},
     returnOnEquity    : {0 - 10, 0, 20},
     marketCap         : {0, 300, 8000},
     revenue           : {0, 200, 400},
     totalCash         : {0, 150, 200},
     operatingCashflow : {0 - 100, 0, 20},
     per               : {0 - Dec(5, 0), 0, Dec(18, 0)},
     pbr               : {0, Dec(4, 0)},
     roa               : {0, 9},
     equityRatio       : {0, Dec(55, 0), Dec(100, 0)},
     eps               : {0 - Dec(1, 0), 0, Dec(2, 10)}]

InitScreen ==
    /\ statsValue \in Stats
    /\ reportCurrency \in {"USD", "JPY"}
    /\ exchangeRate = IF reportCurrency = "JPY" THEN 150 ELSE 1
    /\ screening = NoRecord
    /\ reportedResults = NoRecord
    /\ reportedValues = NoRecord
    /\ longTermSuitability = "none"
    /\ spc = "start"
    /\ IdleResample
    /\ IdleTenbagger
    /\ IdleCalc
    /\ IdleSymbol
    /\ IdleRoute
    /\ IdleCache
    /\ IdlePage
    /\ IdlePricesRoute
    /\ IdleSector

CallScreenStocks ==
    /\ spc = "start"
    /\ screening' = screenStocks(<<statsValue>>, reportCurrency)[1]
    /\ spc' = "screened"
    /\ UNCHANGED <<statsValue, reportCurrency, exchangeRate, reportedResults, reportedValues,
                   longTermSuitability, resampleVars, tenbaggerVars, calcVars, symbolVars, routeVars, cacheVars, pageVars, pricesRouteVars, sectorVars>>

CallScreenStocksLegacy ==
    /\ spc = "start"
    /\ screening' = screenStocksLegacy(<<statsValue>>)[1]
    /\ spc' = "screenedLegacy"
    /\ UNCHANGED <<statsValue, reportCurrency, exchangeRate, reportedResults, reportedValues,
                   longTermSuitability, resampleVars, tenbaggerVars, calcVars, symbolVars, routeVars, cacheVars, pageVars, pricesRouteVars, sectorVars>>

\* the part of GET from the projection of the grid to the suitability
BuildReport ==
    /\ spc = "screened"
    /\ LET needsConversion == reportCurrency = "JPY" /\ statsValue.marketCap < 1000
           grid   == ProjectScreeningResults(screening)
           values == ActualValues(statsValue, needsConversion, exchangeRate)
       IN  /\ reportedResults' = grid
           /\ reportedValues' = values
           /\ longTermSuitability' = evaluateLongTermSuitability(grid, values)
    /\ spc' = "reported"
    /\ UNCHANGED <<statsValue, reportCurrency, exchangeRate, screening, resampleVars, tenbaggerVars, calcVars, symbolVars, routeVars, cacheVars, pageVars, pricesRouteVars, sectorVars>>

NextScreen ==
    \/ CallScreenStocks
    \/ CallScreenStocksLegacy
    \/ BuildReport

SpecScreen == InitScreen /\ [][NextScreen]_vars

---------------------------------------------------------------------------
(* evaluateLongTermSuitability on every screening grid *)

InitSuitability ==
    /\ reportedResults \in [FactorKeys -> Tiers]
    /\ statsValue = ScenarioStat
    /\ reportCurrency = "USD"
    /\ exchangeRate = 1
    /\ screening = NoRecord
    /\ reportedValues = ActualValues(ScenarioStat, FALSE, 1)
    /\ longTermSuitability = "none"
    /\ spc = "grid"
    /\ IdleResample
    /\ IdleTenbagger
    /\ IdleCalc
    /\ IdleSymbol
    /\ IdleRoute
    /\ IdleCache
    /\ IdlePage
    /\ IdlePricesRoute
    /\ IdleSector

CallEvaluateLongTermSuitability ==
    /\ spc = "grid"
    /\ longTermSuitability' = evaluateLongTermSuitability(reportedResults, reportedValues)
    /\ spc' = "judged"
    /\ UNCHANGED <<statsValue, reportCurrency, exchangeRate, screening, reportedResults, reportedValues,
                   resampleVars, tenbaggerVars, calcVars, symbolVars, routeVars, cacheVars, pageVars, pricesRouteVars, sectorVars>>

NextSuitability == CallEvaluateLongTermSuitability

SpecSuitability == InitSuitability /\ [][NextSuitability]_vars

---------------------------------------------------------------------------
(* evaluateTenbaggerPotential: calls that differ only in revenueGrowth.cagr *)

MaxCalls == 2

Cagrs == {5, 20, 40}

Recents == {0 - 15, 10, 20, 25, 30, 45, 55}

TenbaggerActualValues ==
    { [ActualValues(ScenarioStat, FALSE, 1)
          EXCEPT !.marketCap = m, !.roe = r, !.positiveCF = c, !.per = p] :
        m \in {0, 100, 1500, 60000},
        r \in {<<0 - 5, 1>>, <<5, 1>>, <<20, 1>>},
        c \in {<<0 - 10, 1>>, <<6, 1>>, <<20, 1>>},
        p \in {<<0, 1>>, <<18, 1>>, <<300, 1>>} }

PriceWindows ==
    { [minPrice |-> 100, maxPrice |-> 700, currentPrice |-> 150],
      [minPrice |-> 100, maxPrice |-> 700, currentPrice |-> 400],
      [minPrice |-> 0,   maxPrice |-> 700, currentPrice |-> 100] }

InitTenbagger ==
    /\ reportedValues \in TenbaggerActualValues
    /\ isJapanese \in BOOLEAN
    /\ priceWindow \in PriceWindows
    /\ recentGrowth \in Recents
    /\ tenbaggerCalls = <<>>
    /\ statsValue = ScenarioStat
    /\ reportCurrency = IF isJapanese THEN "JPY" ELSE "USD"
    /\ exchangeRate = 1
    /\ screening = NoRecord
    /\ reportedResults = ProjectScreeningResults(screenStocks(<<ScenarioStat>>, "USD")[1])
    /\ longTermSuitability = "none"
    /\ spc = "idle"
    /\ IdleResample
    /\ IdleCalc
    /\ IdleSymbol
    /\ IdleRoute
    /\ IdleCache
    /\ IdlePage
    /\ IdlePricesRoute
    /\ IdleSector

CallEvaluateTenbaggerPotential(revenueGrowth) ==
    /\ Len(tenbaggerCalls) < MaxCalls
    /\ tenbaggerCalls' =
          Append(tenbaggerCalls,
                 [revenueGrowth |-> revenueGrowth,
                  result |-> evaluateTenbaggerPotential(reportedValues, reportedResults,
                                                        revenueGrowth, isJapanese, priceWindow)])
    /\ UNCHANGED <<isJapanese, priceWindow, recentGrowth, screenVars, resampleVars, calcVars, symbolVars, routeVars, cacheVars, pageVars, pricesRouteVars, sectorVars>>

NextTenbagger ==
    \/ \E cagr \in Cagrs :
          CallEvaluateTenbaggerPotential([cagr |-> cagr, recentGrowth |-> recentGrowth])
    \/ CallEvaluateTenbaggerPotential(NoGrowth)

SpecTenbagger == InitTenbagger /\ [][NextTenbagger]_vars

---------------------------------------------------------------------------
(* Properties of the resampler *)

Range(seq) == { seq[i] : i \in 1..Len(seq) }

\* the Monday-to-Sunday week and the calendar month of a calendar date,
\* read off the date itself (2023-01-01, day number 0, is a Sunday)
WeekOf(date) == (DayNumber(date) + 6) \div 7
MonthOf(date) == <<date[1], date[2]>>

SameBucket(d1, d2) ==
    IF granularity = "weekly" THEN WeekOf(d1) = WeekOf(d2) ELSE MonthOf(d1) = MonthOf(d2)

Resampled == rpc \in {"once", "twice"}

\* C1: for every input list in any order, toWeekly (toMonthly) returns
\* exactly one point per week (month) bucket that occurs in the input, and
\* that point is an input point whose date is the latest of its bucket;
\* nothing is averaged, interpolated or invented.
C1_LatestPointPerBucket ==
    Resampled =>
        /\ \A i \in 1..Len(resampled) : resampled[i] \in Range(dailyPrices)
        /\ \A j \in 1..Len(dailyPrices) :
              Cardinality({ i \in 1..Len(resampled) :
                              SameBucket(resampled[i].date, dailyPrices[j].date) }) = 1
        /\ \A i \in 1..Len(resampled) : \A j \in 1..Len(dailyPrices) :
              SameBucket(resampled[i].date, dailyPrices[j].date)
                  => DayNumber(dailyPrices[j].date) <= DayNumber(resampled[i].date)

\* an unsorted week: the later day comes first, a third point lies in
\* another week, and the runtime is east of Greenwich
C1_Witness ==
    /\ rpc = "once"
    /\ granularity = "weekly"
    /\ tz = 9
    /\ Len(dailyPrices) = 3
    /\ WeekOf(dailyPrices[1].date) = WeekOf(dailyPrices[2].date)
    /\ DayNumber(dailyPrices[1].date) > DayNumber(dailyPrices[2].date)
    /\ WeekOf(dailyPrices[3].date) # WeekOf(dailyPrices[1].date)
    /\ Len(resampled) = 2
    /\ resampled[1] = dailyPrices[1]

\* the keys the running resampler computes for its input
KeysOfInput ==
    IF granularity = "weekly" THEN WeekKeys(dailyPrices) ELSE MonthKeys(dailyPrices)

RECURSIVE SumOfGroupSizes(_, _, _)
SumOfGroupSizes(prices, ks, keys) ==
    IF keys = <<>> THEN 0
    ELSE Len(MapGet(prices, ks, keys[1])) + SumOfGroupSizes(prices, ks, Tail(keys))

\* C9: toWeekly and toMonthly put every input point into exactly one
\* bucket; the number of output points is the number of distinct buckets
\* and never exceeds the number of input points; an empty input gives an
\* empty output and a single point gives that single point.
C9_BucketCompleteness ==
    Resampled =>
        LET ks   == KeysOfInput
            keys == MapKeys(ks)
        IN  /\ \A j \in 1..Len(dailyPrices) :
                  /\ Cardinality({ n \in 1..Len(keys) : keys[n] = ks[j] }) = 1
                  /\ dailyPrices[j] \in Range(MapGet(dailyPrices, ks, ks[j]))
            /\ SumOfGroupSizes(dailyPrices, ks, keys) = Len(dailyPrices)
            /\ Len(resampled) =
                  Cardinality({ IF granularity = "weekly"
                                THEN <<WeekOf(p.date)>> ELSE MonthOf(p.date) :
                                p \in Range(dailyPrices) })
            /\ Len(resampled) <= Len(dailyPrices)
            /\ (dailyPrices = <<>> => resampled = <<>>)
            /\ (Len(dailyPrices) = 1 => resampled = dailyPrices)

\* three points in two months give two output points
C9_Witness ==
    /\ rpc = "once"
    /\ granularity = "monthly"
    /\ Len(dailyPrices) = 3
    /\ MonthOf(dailyPrices[1].date) = MonthOf(dailyPrices[3].date)
    /\ MonthOf(dailyPrices[1].date) # MonthOf(dailyPrices[2].date)
    /\ Len(resampled) = 2

OnePointPerDay(prices) ==
    \A i, j \in 1..Len(prices) : prices[i].date = prices[j].date => i = j

\* C10: for every price list with at most one point per calendar day,
\* resampling the monthly (weekly) series by month (week) once more gives
\* the same points.
C10_ResamplingIdempotent ==
    (rpc = "twice" /\ OnePointPerDay(dailyPrices)) =>
        /\ Range(resampledAgain) = Range(resampled)
        /\ Len(resampledAgain) = Len(resampled)

\* a three-day list that shrinks to two months and is resampled again
C10_Witness ==
    /\ rpc = "twice"
    /\ granularity = "monthly"
    /\ OnePointPerDay(dailyPrices)
    /\ Len(dailyPrices) = 3
    /\ Len(resampled) = 2
    /\ resampledAgain = resampled

---------------------------------------------------------------------------
(* Properties of the screening grid and of the long-term suitability *)

Judged == spc = "judged"

CountOf(grid, S) == Cardinality({ k \in FactorKeys : grid[k] \in S })

\* C2: whenever the grid rates positiveCF or equityRatio as poor,
\* evaluateLongTermSuitability returns poor, whatever the ratings of the
\* other eight factors; the hard-fail test comes before any count rule.
C2_HardFailShortCircuit ==
    (Judged /\ (reportedResults.positiveCF = Poor \/ reportedResults.equityRatio = Poor))
        => longTermSuitability = Poor

\* only equityRatio fails and the nine other factors are excellent
C2_Witness ==
    /\ Judged
    /\ reportedResults.equityRatio = Poor
    /\ \A k \in FactorKeys \ {"equityRatio"} : reportedResults[k] = Excellent
    /\ longTermSuitability = Poor

Screened == spc = "screened"

\* C3: for every snapshot and both currencies the per-stock result of
\* screenStocks has exactly the ten factor keys, no more and no fewer, and
\* each value is one of the four tier symbols.
C3_ExactlyTenTierKeys ==
    (spc \in {"screened", "screenedLegacy"}) =>
        /\ DOMAIN screening = FactorKeys
        /\ \A k \in FactorKeys : screening[k] \in Tiers

\* C4 as stated: the scenario snapshot in USD is rated roe excellent, psr
\* good, cashRich excellent, positiveCF excellent, per good, pbr poor, roa
\* excellent, equityRatio good, eps excellent.
C4_ScenarioAsStated ==
    (Screened /\ statsValue = ScenarioStat /\ reportCurrency = "USD") =>
        /\ screening.roe = Excellent
        /\ screening.psr = Good
        /\ screening.cashRich = Excellent
        /\ screening.positiveCF = Excellent
        /\ screening.per = Good
        /\ screening.pbr = Poor
        /\ screening.roa = Excellent
        /\ screening.equityRatio = Good
        /\ screening.eps = Excellent

\* C4 amended: the same scenario, with cashRich rated good, because cash
\* of exactly 50% of the market cap is not above 50%.
C4_Scenario ==
    (Screened /\ statsValue = ScenarioStat /\ reportCurrency = "USD") =>
        /\ screening.roe = Excellent
        /\ screening.psr = Good
        /\ screening.cashRich = Good
        /\ screening.positiveCF = Excellent
        /\ screening.per = Good
        /\ screening.pbr = Poor
        /\ screening.roa = Excellent
        /\ screening.equityRatio = Good
        /\ screening.eps = Excellent

C4_Witness ==
    /\ Screened
    /\ statsValue = ScenarioStat
    /\ reportCurrency = "USD"
    /\ screening.cashRich = Good

\* C6: screenStocks rates psr as poor when revenue = 0 and rates per as
\* poor when per <= 0.
C6_UndefinedRatiosArePoor ==
    Screened =>
        /\ (statsValue.revenue = 0 => screening.psr = Poor)
        /\ (statsValue.per <= 0 => screening.per = Poor)

---------------------------------------------------------------------------
(* Properties of the tenbagger potential *)

Calls == 1..Len(tenbaggerCalls)

CagrOf(n) == tenbaggerCalls[n].revenueGrowth.cagr

HasGrowth(n) == ~IsNull(tenbaggerCalls[n].revenueGrowth)

\* C7: for every choice of the other inputs, the call with
\* revenueGrowth.cagr = 40 returns a strictly greater score than the same
\* call with revenueGrowth.cagr = 5.
C7_ScoreMonotoneSample ==
    \A i, j \in Calls :
        (HasGrowth(i) /\ HasGrowth(j) /\ CagrOf(i) = 40 /\ CagrOf(j) = 5)
            => tenbaggerCalls[i].result.score > tenbaggerCalls[j].result.score

\* the tightest pair: recent growth of 20 is a slowdown for CAGR 40 and an
\* acceleration for CAGR 5
C7_Witness ==
    /\ Len(tenbaggerCalls) = 2
    /\ HasGrowth(1) /\ HasGrowth(2)
    /\ CagrOf(1) = 5 /\ CagrOf(2) = 40
    /\ recentGrowth = 20
    /\ tenbaggerCalls[2].result.score = tenbaggerCalls[1].result.score + 9

\* C8: the rating is a function of the score only: excellent iff score >=
\* 60, good iff 40 <= score < 60, normal iff 25 <= score < 40, poor iff
\* score < 25, negative scores included.
C8_RatingFromScore ==
    \A n \in Calls :
        LET r == tenbaggerCalls[n].result
        IN  /\ (r.rating = Excellent <=> r.score >= 60)
            /\ (r.rating = Good <=> (40 <= r.score /\ r.score < 60))
            /\ (r.rating = Normal <=> (25 <= r.score /\ r.score < 40))
            /\ (r.rating = Poor <=> r.score < 25)

\* a negative score is rated poor and a score on the boundary 25 is normal
C8_Witness ==
    /\ Len(tenbaggerCalls) = 2
    /\ tenbaggerCalls[1].result.score < 0
    /\ tenbaggerCalls[1].result.rating = Poor
    /\ tenbaggerCalls[2].result.score \in 25..39
    /\ tenbaggerCalls[2].result.rating = Normal

---------------------------------------------------------------------------
(* The weekly bucket key *)

\* the calendar date of the Monday on or before a calendar date
MondayOnOrBefore(date) ==
    CivilOf(DayNumber(date) - ((DayNumber(date) + 6) % 7))

\* C11: for every date and every UTC offset of the runtime, the weekly
\* bucket key of a point is the calendar date of the Monday on or before
\* the point's date (a Monday maps to itself, a Sunday to the Monday six
\* days earlier); two points share a weekly bucket exactly when they lie
\* in the same Monday-to-Sunday week.
C11_WeekKeyIsMonday ==
    (Resampled /\ granularity = "weekly") =>
        LET ks == WeekKeys(dailyPrices)
        IN  /\ \A i \in 1..Len(dailyPrices) :
                  ks[i] = MondayOnOrBefore(dailyPrices[i].date)
            /\ \A i, j \in 1..Len(dailyPrices) :
                  (ks[i] = ks[j]) <=>
                      (WeekOf(dailyPrices[i].date) = WeekOf(dailyPrices[j].date))

---------------------------------------------------------------------------
(* calculateStats *)

\* the value null
null == [isNull |-> TRUE]

\* Math.max(...values) and Math.min(...values) of a non-empty array
RECURSIVE MathMax(_)
MathMax(values) ==
    IF Len(values) = 1 THEN values[1]
    ELSE LET m == MathMax(SubSeq(values, 1, Len(values) - 1))
             v == values[Len(values)]
         IN  IF v > m THEN v ELSE m

RECURSIVE MathMin(_)
MathMin(values) ==
    IF Len(values) = 1 THEN values[1]
    ELSE LET m == MathMin(SubSeq(values, 1, Len(values) - 1))
             v == values[Len(values)]
         IN  IF v < m THEN v ELSE m

\* the callbacks of the two reduce calls
takeHigherOrLater(max, current) == IF current.price >= max.price THEN current ELSE max
takeHigher(max, current) == IF current.price > max.price THEN current ELSE max

takeLower(min, current) == IF current.price < min.price THEN current ELSE min

\* prices.reduce(callback) without an initial value: the accumulator starts
\* at prices[0]
RECURSIVE maxPriceItem(_)
maxPriceItem(prices) ==
    IF Len(prices) = 1 THEN prices[1]
    ELSE takeHigher(maxPriceItem(SubSeq(prices, 1, Len(prices) - 1)), prices[Len(prices)])

RECURSIVE minPriceItem(_)
minPriceItem(prices) ==
    IF Len(prices) = 1 THEN prices[1]
    ELSE takeLower(minPriceItem(SubSeq(prices, 1, Len(prices) - 1)), prices[Len(prices)])

\* the object returned for a non-empty list; priceRangePercent is the
\* quotient (priceRange / maxPrice) * 100
StatsObject(prices) ==
    LET priceValues == [i \in 1..Len(prices) |-> prices[i].price]
        maxPrice    == MathMax(priceValues)
        minPrice    == MathMin(priceValues)
        priceRange  == maxPrice - minPrice
    IN  [maxPrice          |-> maxPrice,
         maxPriceDate      |-> maxPriceItem(prices).date,
         minPrice          |-> minPrice,
         minPriceDate      |-> minPriceItem(prices).date,
         priceRange        |-> priceRange,
         priceRangePercent |-> Times(<<priceRange, maxPrice>>, 100)]

calculateStatsOfSeveral(prices) ==
    IF Len(prices) <= 1 THEN null ELSE StatsObject(prices)
calculateStats(prices) ==
    IF Len(prices) = 0 THEN null ELSE StatsObject(prices)

\* price lists handed to calculateStats: three price levels on two days,
\* so that the maximum and the minimum can be attained more than once
StatPrices == {150, 185, 220}

StatDates == { <<2024, 1, 31>>, <<2024, 2, 1>> }

StatPoints == [symbol : {"AAPL"}, price : StatPrices, date : StatDates]

InitStats ==
    /\ dailyPrices \in SeqsUpTo(StatPoints, MaxLen)
    /\ statistics = NoRecord
    /\ cpc = "start"
    /\ tz = 0
    /\ granularity = "none"
    /\ resampled = <<>>
    /\ resampledAgain = <<>>
    /\ rpc = "idle"
    /\ IdleScreen
    /\ IdleTenbagger
    /\ IdleSymbol
    /\ IdleRoute
    /\ IdleCache
    /\ IdlePage
    /\ IdlePricesRoute
    /\ IdleSector

\* const stats = calculateStats(prices)
CallCalculateStats ==
    /\ cpc = "start"
    /\ statistics' = calculateStats(dailyPrices)
    /\ cpc' = "done"
    /\ UNCHANGED <<resampleVars, screenVars, tenbaggerVars, symbolVars, routeVars, cacheVars, pageVars, pricesRouteVars, sectorVars>>

NextStats == CallCalculateStats

SpecStats == InitStats /\ [][NextStats]_vars

Calculated == cpc = "done"

PricesOf(prices) == { prices[i].price : i \in 1..Len(prices) }

\* the first index in input order whose price is v
FirstIndexOf(prices, v) ==
    CHOOSE i \in 1..Len(prices) :
        /\ prices[i].price = v
        /\ \A j \in 1..(i - 1) : prices[j].price # v

\* C12: for every non-empty price list calculateStats returns the largest
\* price as maxPrice, the smallest as minPrice, their difference as
\* priceRange, priceRange / maxPrice * 100 as priceRangePercent, and as
\* maxPriceDate / minPriceDate the date of the first point in input order
\* that attains the maximum / minimum; a single point has range 0 and
\* percent 0.
C12_StatsOfNonEmptyList ==
    (Calculated /\ dailyPrices # <<>>) =>
        LET st == statistics
            P  == PricesOf(dailyPrices)
        IN  /\ st.maxPrice \in P /\ \A p \in P : p <= st.maxPrice
            /\ st.minPrice \in P /\ \A p \in P : p >= st.minPrice
            /\ st.priceRange = st.maxPrice - st.minPrice
            /\ st.priceRangePercent[2] > 0
            /\ st.priceRangePercent[1] * st.maxPrice
                  = st.priceRange * 100 * st.priceRangePercent[2]
            /\ st.maxPriceDate = dailyPrices[FirstIndexOf(dailyPrices, st.maxPrice)].date
            /\ st.minPriceDate = dailyPrices[FirstIndexOf(dailyPrices, st.minPrice)].date
            /\ Len(dailyPrices) = 1 =>
                  (st.priceRange = 0 /\ st.priceRangePercent[1] = 0)

\* the maximum is attained by the first and by the last point, on
\* different days, and the date reported is the first point's
C12_Witness ==
    /\ Calculated
    /\ Len(dailyPrices) = 3
    /\ dailyPrices[1].price = 220
    /\ dailyPrices[2].price = 150
    /\ dailyPrices[3].price = 220
    /\ dailyPrices[1].date # dailyPrices[3].date
    /\ statistics.maxPriceDate = dailyPrices[1].date
    /\ statistics.priceRange = 70

\* C13: calculateStats returns null exactly when the input list is empty;
\* for every non-empty list it returns a statistics object with the six
\* fields.
C13_NullIffEmpty ==
    Calculated =>
        /\ (statistics = null) <=> (dailyPrices = <<>>)
        /\ dailyPrices # <<>> =>
              DOMAIN statistics = {"maxPrice", "maxPriceDate", "minPrice",
                                   "minPriceDate", "priceRange", "priceRangePercent"}

\* the empty list gives null
C13_Witness ==
    /\ Calculated
    /\ dailyPrices = <<>>
    /\ statistics = null

---------------------------------------------------------------------------
(* Further properties of the tenbagger potential *)

\* the sub-factors in the order in which the function evaluates them
SubFactorOrder ==
    <<"cagr", "recent", "marketCap", "pricePosition", "roe", "cfMargin", "per">>

\* the sub-factor each string of a details list belongs to
SubFactorsOf(details) == [i \in 1..Len(details) |-> details[i][2]]

\* C14: for every input the details list holds exactly one string per
\* sub-factor, in the order revenue CAGR, recent growth, market cap, price
\* position, ROE, operating-cash-flow margin, PER; its length and order do
\* not depend on the tier a sub-factor lands in.
C14_OneStringPerSubFactor ==
    \A n \in Calls :
        SubFactorsOf(tenbaggerCalls[n].result.details) = SubFactorOrder

\* what the sub-factors other than revenue growth add for the inputs of
\* the running calls
OtherContributions ==
    marketCapPart(reportedValues.marketCap, isJapanese).points
        + pricePositionPart(priceWindow).points
        + roePart(reportedValues.roe).points
        + cfMarginPart(reportedValues.positiveCF).points
        + perPart(reportedValues.per).points

\* C15: with revenueGrowth null the function still returns a complete
\* {rating, score, details} result, and the growth bucket adds exactly 0:
\* the score is the sum of the market-cap, price-position, profitability
\* and PER contributions alone.
C15_NullGrowthContributesZero ==
    \A n \in Calls :
        ~HasGrowth(n) =>
            LET r == tenbaggerCalls[n].result
            IN  /\ DOMAIN r = {"rating", "score", "details"}
                /\ r.rating \in Tiers
                /\ r.details # <<>>
                /\ r.score = OtherContributions

\* without growth data the other sub-factors alone reach 60 points and the
\* best rating, while the same inputs with growth data score differently
C15_Witness ==
    /\ Len(tenbaggerCalls) = 2
    /\ ~HasGrowth(1)
    /\ tenbaggerCalls[1].result.score = 60
    /\ tenbaggerCalls[1].result.rating = Excellent
    /\ HasGrowth(2)
    /\ tenbaggerCalls[2].result.score # 60

---------------------------------------------------------------------------
(* Region detection.  A symbol is a sequence of one-character strings.     *)

MaxSymbolLen == 5

MaxNormalize == 2

\* the characters symbols are typed from: a digit, a letter that is part of
\* no suffix, the dot and the letters of the two suffixes
SymbolChars == {"7", "A", ".", "T", "J", "P"}

\* \d
Digits == {"0", "1", "2", "3", "4", "5", "6", "7", "8", "9"}

\* String.prototype.endsWith
endsWith(symbol, suffix) ==
    /\ Len(symbol) >= Len(suffix)
    /\ SubSeq(symbol, Len(symbol) - Len(suffix) + 1, Len(symbol)) = suffix

\* /^\d{4}$/.test(symbol)
isFourDigits(symbol) ==
    /\ Len(symbol) = 4
    /\ \A i \in 1..4 : symbol[i] \in Digits

isJapaneseStockBySuffix(symbol) ==
    \/ endsWith(symbol, <<".", "T">>)
    \/ endsWith(symbol, <<".", "J", "P">>)
isJapaneseStock(symbol) ==
    \/ endsWith(symbol, <<".", "T">>)
    \/ endsWith(symbol, <<".", "J", "P">>)
    \/ isFourDigits(symbol)

normalizeJapaneseSymbol(symbol) ==
    IF isFourDigits(symbol) THEN symbol \o <<".", "T">> ELSE symbol

\* isJP ? 'JPY' : 'USD'
currencyOf(isJP) == IF isJP THEN "JPY" ELSE "USD"

InitSymbol ==
    /\ symbolGiven \in SeqsUpTo(SymbolChars, MaxSymbolLen)
    /\ normalized = <<>>
    /\ classified = {}
    /\ IdleResample
    /\ IdleScreen
    /\ IdleTenbagger
    /\ IdleCalc
    /\ IdleRoute
    /\ IdleCache
    /\ IdlePage
    /\ IdlePricesRoute
    /\ IdleSector

\* the symbol as it stands after the normalizations made so far
CurrentSymbol ==
    IF normalized = <<>> THEN symbolGiven ELSE normalized[Len(normalized)]

\* const isJP = isJapaneseStock(symbol), and the currency chosen from it
CallIsJapaneseStock ==
    /\ \A c \in classified : c.symbol # CurrentSymbol
    /\ classified' = classified \cup
          { [symbol   |-> CurrentSymbol,
             isJP     |-> isJapaneseStock(CurrentSymbol),
             currency |-> currencyOf(isJapaneseStock(CurrentSymbol))] }
    /\ UNCHANGED <<symbolGiven, normalized, resampleVars, screenVars, tenbaggerVars,
                   calcVars, routeVars, cacheVars, pageVars, pricesRouteVars, sectorVars>>

\* symbol = normalizeJapaneseSymbol(symbol)
CallNormalizeJapaneseSymbol ==
    /\ Len(normalized) < MaxNormalize
    /\ normalized' = Append(normalized, normalizeJapaneseSymbol(CurrentSymbol))
    /\ UNCHANGED <<symbolGiven, classified, resampleVars, screenVars, tenbaggerVars,
                   calcVars, routeVars, cacheVars, pageVars, pricesRouteVars, sectorVars>>

NextSymbol ==
    \/ CallIsJapaneseStock
    \/ CallNormalizeJapaneseSymbol

SpecSymbol == InitSymbol /\ [][NextSymbol]_vars

\* the rule of the claim, read off the characters of a symbol
EndsInDotT(s) == Len(s) >= 2 /\ s[Len(s) - 1] = "." /\ s[Len(s)] = "T"

EndsInDotJP(s) ==
    Len(s) >= 3 /\ s[Len(s) - 2] = "." /\ s[Len(s) - 1] = "J" /\ s[Len(s)] = "P"

ExactlyFourDigits(s) == Len(s) = 4 /\ { s[i] : i \in 1..Len(s) } \subseteq Digits

\* C17: a symbol is treated as Japanese, with currency JPY, exactly when it
\* ends in ".T" or ".JP" or consists of exactly four digits;
\* normalizeJapaneseSymbol appends ".T" to a bare four-digit code and
\* leaves every other symbol unchanged, is idempotent, and never changes
\* the region a symbol is classified as.
C17_RegionDetection ==
    /\ \A c \in classified :
          /\ c.isJP <=> (EndsInDotT(c.symbol) \/ EndsInDotJP(c.symbol)
                            \/ ExactlyFourDigits(c.symbol))
          /\ (c.currency = "JPY") <=> c.isJP
          /\ c.currency \in {"JPY", "USD"}
    /\ Len(normalized) >= 1 =>
          normalized[1] = IF ExactlyFourDigits(symbolGiven)
                          THEN symbolGiven \o <<".", "T">> ELSE symbolGiven
    /\ \A n \in 2..Len(normalized) : normalized[n] = normalized[n - 1]
    /\ \A c, d \in classified : c.isJP = d.isJP

\* a bare four-digit code is classified, normalized to the code with ".T",
\* classified again as Japanese, and normalized again without change
C17_Witness ==
    /\ symbolGiven = <<"7", "7", "7", "7">>
    /\ normalized = << <<"7", "7", "7", "7", ".", "T">>, <<"7", "7", "7", "7", ".", "T">> >>
    /\ Cardinality(classified) = 2
    /\ \A c \in classified : c.isJP /\ c.currency = "JPY"

---------------------------------------------------------------------------
(* The screen route GET and the four fetches it waits for *)

undefined == [isUndefined |-> TRUE]

\* an answer of Yahoo Finance: the request fails, or it yields data
failure == [ok |-> FALSE]
Answer(data) == [ok |-> TRUE, data |-> data]

\* the states of a promise handed to Promise.allSettled
pending == [status |-> "pending"]
rejected == [status |-> "rejected"]
fulfilled(value) == [status |-> "fulfilled", value |-> value]

\* fetchDailyPrices: a failed request and an empty history both throw
fetchDailyPrices(symbol, answer) ==
    IF ~answer.ok THEN rejected
    ELSE IF Len(answer.data) = 0 THEN rejected
    ELSE fulfilled([i \in 1..Len(answer.data) |->
                       [symbol |-> symbol,
                        date   |-> answer.data[i].date,
                        price  |-> answer.data[i].close]])

\* (1 / (1 + debtToEquityRaw / 100)) * 100, in hundredths; the quotes
\* offered make the division exact
calculatedEquityRatio(debtToEquityRaw) ==
    IF debtToEquityRaw > 0 THEN 1000000 \div (100 + debtToEquityRaw) ELSE Dec(100, 0)

\* the StockStats built from a quote; a field the quote lacks is 0 in the
\* model of the quote, and x || 0 leaves every other number as it is
StatsFromQuote(symbol, quote) ==
    [symbol            |-> symbol,
     returnOnEquity    |-> quote.returnOnEquity,
     marketCap         |-> quote.marketCap,
     revenue           |-> quote.totalRevenue,
     totalCash         |-> quote.totalCash,
     operatingCashflow |-> quote.operatingCashflow,
     per               |-> quote.trailingPE,
     pbr               |-> quote.priceToBook,
     roa               |-> quote.returnOnAssets,
     equityRatio       |-> calculatedEquityRatio(quote.debtToEquity),
     eps               |-> quote.trailingEps,
     fiftyTwoWeekLow   |-> quote.fiftyTwoWeekLow,
     fiftyTwoWeekHigh  |-> quote.fiftyTwoWeekHigh,
     revenueGrowth     |-> quote.revenueGrowth,
     earningsGrowth    |-> quote.earningsGrowth]

\* a quote without any field
EmptyQuote ==
    [returnOnEquity |-> 0, marketCap |-> 0, totalRevenue |-> 0, totalCash |-> 0,
     operatingCashflow |-> 0, trailingPE |-> 0, priceToBook |-> 0,
     returnOnAssets |-> 0, debtToEquity |-> 0, trailingEps |-> 0,
     fiftyTwoWeekLow |-> 0, fiftyTwoWeekHigh |-> 0, revenueGrowth |-> 0,
     earningsGrowth |-> 0]

fetchStockStatsLenient(symbol, answer) ==
    IF ~answer.ok THEN fulfilled(StatsFromQuote(symbol, EmptyQuote))
    ELSE IF IsNull(answer.data) THEN fulfilled(StatsFromQuote(symbol, EmptyQuote))
    ELSE fulfilled(StatsFromQuote(symbol, answer.data))
\* fetchStockStats: a failed request and a missing quote both throw
fetchStockStats(symbol, answer) ==
    IF ~answer.ok THEN rejected
    ELSE IF IsNull(answer.data) THEN rejected
    ELSE fulfilled(StatsFromQuote(symbol, answer.data))

\* getExchangeRate never throws: quote.regularMarketPrice || 150, and 150
\* from the catch block
getExchangeRate(answer) ==
    IF ~answer.ok THEN fulfilled(150)
    ELSE IF answer.data = 0 THEN fulfilled(150)
    ELSE fulfilled(answer.data)

\* getCompanyName never throws: the name, or undefined from the catch block
getCompanyName(symbol, answer) ==
    IF ~answer.ok THEN fulfilled(undefined) ELSE fulfilled(answer.data)

\* Number.prototype.toFixed(2) of a quotient that is not negative, as a
\* count of hundredths (rounded half up)
toFixed2(q) == (200 * q[1] + q[2]) \div (2 * q[2])

\* !symbol: null and the empty string
Falsy(symbol) == IF IsNull(symbol) THEN TRUE ELSE symbol.text = <<>>
\* ---- what the route can be asked and what Yahoo Finance can answer ----

RequestSymbols ==
    { null, [text |-> <<>>], [text |-> <<"A", "A", "P", "L">>],
      [text |-> <<"7", "2", "0", "3">>], [text |-> <<"7", "2", "0", "3", ".", "T">>] }

\* closes that put the latest price on and next to the bounds 1.8, 3 and 5
\* of the price multiple, over a low of 100 and over a low of 120
LastCloses == {179, 180, 216, 299, 300, 499, 500, 600}

PriceAnswers ==
    { failure,
      Answer(<<>>),
      Answer(<< [date |-> <<2024, 1, 31>>, close |-> 150] >>),
      Answer(<< [date |-> <<2024, 1, 29>>, close |-> 150],
                [date |-> <<2024, 1, 31>>, close |-> 220],
                [date |-> <<2024, 2, 1>>,  close |-> 185] >>) }
        \cup { Answer(<< [date |-> <<2024, 1, 31>>, close |-> 100],
                         [date |-> <<2024, 2, 1>>,  close |-> last] >>) : last \in LastCloses }

\* the scenario snapshot as a quote, and a company of 50 billion yen
ScenarioQuote ==
    [returnOnEquity |-> 20, marketCap |-> 300, totalRevenue |-> 200, totalCash |-> 150,
     operatingCashflow |-> 20, trailingPE |-> Dec(18, 0), priceToBook |-> Dec(4, 0),
     returnOnAssets |-> 9, debtToEquity |-> 100, trailingEps |-> Dec(2, 10),
     fiftyTwoWeekLow |-> 120, fiftyTwoWeekHigh |-> 230, revenueGrowth |-> 20,
     earningsGrowth |-> 10]

SmallCapQuote ==
    [ScenarioQuote EXCEPT !.marketCap = 500, !.totalRevenue = 400,
                          !.trailingEps = Dec(120, 0), !.revenueGrowth = 0]

\* a company of 2 trillion yen whose revenue shrinks by 30%
ShrinkingQuote ==
    [ScenarioQuote EXCEPT !.marketCap = 20000, !.totalRevenue = 10000,
                          !.trailingEps = Dec(120, 0), !.revenueGrowth = 0 - 30]

StatsAnswers ==
    { failure, Answer(null), Answer(EmptyQuote), Answer(ScenarioQuote), Answer(SmallCapQuote),
      Answer(ShrinkingQuote) }

\* regularMarketPrice of JPY=X; 0 stands for a quote without the field
RateAnswers == { failure, Answer(0), Answer(155) }

NameAnswers == { failure, Answer(undefined), Answer([text |-> "Toyota Motor"]) }

InitRoute ==
    /\ upstream \in [prices : PriceAnswers, stats : StatsAnswers,
                     exchangeRate : RateAnswers, companyName : NameAnswers]
    /\ requestSymbol \in RequestSymbols
    /\ settled = NoRecord
    /\ response = NoRecord
    /\ gpc = "start"
    /\ IdleResample
    /\ IdleScreen
    /\ IdleTenbagger
    /\ IdleCalc
    /\ IdleSymbol
    /\ IdleCache
    /\ IdlePage
    /\ IdlePricesRoute
    /\ IdleSector

\* if (!symbol) return NextResponse.json({ error }, { status: 400 })
GetMissingSymbol ==
    /\ gpc = "start"
    /\ Falsy(requestSymbol)
    /\ response' = [status |-> 400, body |-> [error |-> "Symbol is required"]]
    /\ gpc' = "done"
    /\ UNCHANGED <<upstream, requestSymbol, settled, resampleVars, screenVars,
                   tenbaggerVars, calcVars, symbolVars, cacheVars, pageVars, pricesRouteVars, sectorVars>>

\* from the region detection to the await of Promise.allSettled
GetBegin ==
    /\ gpc = "start"
    /\ ~Falsy(requestSymbol)
    /\ LET isJP == isJapaneseStock(requestSymbol.text)
       IN  /\ isJapanese' = isJP
           /\ requestSymbol' =
                 [text |-> IF isJP THEN normalizeJapaneseSymbol(requestSymbol.text)
                           ELSE requestSymbol.text]
           /\ settled' = [prices       |-> pending,
                          stats        |-> pending,
                          exchangeRate |-> IF isJP THEN pending ELSE fulfilled(1),
                          companyName  |-> pending]
    /\ gpc' = "awaiting"
    /\ UNCHANGED <<upstream, response, priceWindow, recentGrowth, tenbaggerCalls,
                   resampleVars, screenVars, calcVars, symbolVars, cacheVars, pageVars, pricesRouteVars, sectorVars>>

SettleOthersUnchanged ==
    UNCHANGED <<upstream, requestSymbol, response, gpc, resampleVars, screenVars,
                tenbaggerVars, calcVars, symbolVars, cacheVars, pageVars, pricesRouteVars, sectorVars>>

SettleFetchDailyPrices ==
    /\ gpc = "awaiting"
    /\ settled.prices = pending
    /\ settled' = [settled EXCEPT
                      !.prices = fetchDailyPrices(requestSymbol.text, upstream.prices)]
    /\ SettleOthersUnchanged

SettleFetchStockStats ==
    /\ gpc = "awaiting"
    /\ settled.stats = pending
    /\ settled' = [settled EXCEPT
                      !.stats = fetchStockStats(requestSymbol.text, upstream.stats)]
    /\ SettleOthersUnchanged

SettleGetExchangeRate ==
    /\ gpc = "awaiting"
    /\ settled.exchangeRate = pending
    /\ settled' = [settled EXCEPT !.exchangeRate = getExchangeRate(upstream.exchangeRate)]
    /\ SettleOthersUnchanged

SettleGetCompanyName ==
    /\ gpc = "awaiting"
    /\ settled.companyName = pending
    /\ settled' = [settled EXCEPT
                      !.companyName = getCompanyName(requestSymbol.text, upstream.companyName)]
    /\ SettleOthersUnchanged

AllSettled ==
    \A k \in {"prices", "stats", "exchangeRate", "companyName"} : settled[k] # pending

\* a rejected price or fundamentals fetch is thrown and caught: status 500
GetRespondError ==
    /\ gpc = "awaiting"
    /\ AllSettled
    /\ settled.prices.status = "rejected" \/ settled.stats.status = "rejected"
    /\ response' =
          [status |-> 500,
           body   |-> [error   |-> IF settled.prices.status = "rejected"
                                   THEN "price data fetch failed"
                                   ELSE "financial data fetch failed",
                       details |-> "access to Yahoo Finance failed, retry later"]]
    /\ gpc' = "done"
    /\ UNCHANGED <<upstream, requestSymbol, settled, resampleVars, screenVars,
                   tenbaggerVars, calcVars, symbolVars, cacheVars, pageVars, pricesRouteVars, sectorVars>>

\* const revenueGrowth = revenueGrowthRaw ? {cagr, recentGrowth} : null, with
\* the growth rate counted in percent: 0 is falsy
revenueGrowthKeepingZero(revenueGrowthRaw) ==
    [cagr |-> revenueGrowthRaw, recentGrowth |-> revenueGrowthRaw]
revenueGrowthFrom(revenueGrowthRaw) ==
    IF revenueGrowthRaw # 0
    THEN [cagr |-> revenueGrowthRaw, recentGrowth |-> revenueGrowthRaw]
    ELSE NoGrowth

\* JSON.stringify leaves out a property whose value is undefined
OptionalField(key, value) ==
    IF value = undefined THEN <<>> ELSE [k \in {key} |-> value]

\* the rest of the handler when both fetches are fulfilled: status 200
GetRespondReport ==
    /\ gpc = "awaiting"
    /\ AllSettled
    /\ settled.prices.status # "rejected"
    /\ settled.stats.status # "rejected"
    /\ LET isJP        == isJapanese
           pricesValue == settled.prices.value
           stats       == settled.stats.value
           priceValues == [i \in 1..Len(pricesValue) |-> pricesValue[i].price]
           maxPrice    == MathMax(priceValues)
           minPrice    == MathMin(priceValues)
           volatility  == toFixed2(<<(maxPrice - minPrice) * 100, minPrice>>)
           rate        == IF settled.exchangeRate.status = "fulfilled"
                          THEN settled.exchangeRate.value ELSE 150
           name        == IF settled.companyName.status = "fulfilled"
                          THEN settled.companyName.value ELSE undefined
           revenueGrowthRaw == stats.revenueGrowth
           revenueGrowth == revenueGrowthFrom(revenueGrowthRaw)
           lastPrice    == pricesValue[Len(pricesValue)].price
           currentPrice == IF lastPrice # 0 THEN lastPrice ELSE maxPrice
           week52Low    == IF stats.fiftyTwoWeekLow # 0 THEN stats.fiftyTwoWeekLow ELSE minPrice
           week52High   == IF stats.fiftyTwoWeekHigh # 0 THEN stats.fiftyTwoWeekHigh ELSE maxPrice
           needsConversion == isJP /\ stats.marketCap < 1000
           screeningResultsArray == screenStocks(<<stats>>, currencyOf(isJP))
           screeningResults == ProjectScreeningResults(screeningResultsArray[1])
           actualValues == ActualValues(stats, needsConversion, rate)
           window == [minPrice |-> week52Low, maxPrice |-> week52High,
                      currentPrice |-> currentPrice]
           suitability == evaluateLongTermSuitability(screeningResults, actualValues)
           tenbaggerPotential ==
               evaluateTenbaggerPotential(actualValues, screeningResults, revenueGrowth,
                                          isJP, window)
       IN  /\ statsValue' = stats
           /\ reportCurrency' = currencyOf(isJP)
           /\ exchangeRate' = rate
           /\ screening' = screeningResultsArray[1]
           /\ reportedResults' = screeningResults
           /\ reportedValues' = actualValues
           /\ longTermSuitability' = suitability
           /\ priceWindow' = window
           /\ tenbaggerCalls' =
                 Append(tenbaggerCalls,
                        [revenueGrowth |-> revenueGrowth, result |-> tenbaggerPotential])
           /\ response' =
                 [status |-> 200,
                  body   |-> [maxPrice           |-> maxPrice,
                              minPrice           |-> minPrice,
                              volatility         |-> volatility,
                              screeningResults   |-> screeningResults,
                              actualValues       |-> actualValues,
                              longTermSuitability |-> suitability,
                              tenbaggerPotential |-> tenbaggerPotential,
                              currency           |-> currencyOf(isJP)]
                             @@ OptionalField("exchangeRate",
                                              IF isJP /\ needsConversion
                                              THEN [value |-> rate] ELSE undefined)
                             @@ OptionalField("companyName", name)]
    /\ gpc' = "done"
    /\ UNCHANGED <<upstream, requestSymbol, settled, spc, isJapanese, recentGrowth,
                   resampleVars, calcVars, symbolVars, cacheVars, pageVars, pricesRouteVars, sectorVars>>

NextRoute ==
    \/ GetMissingSymbol
    \/ GetBegin
    \/ SettleFetchDailyPrices
    \/ SettleFetchStockStats
    \/ SettleGetExchangeRate
    \/ SettleGetCompanyName
    \/ GetRespondError
    \/ GetRespondReport

SpecRoute == InitRoute /\ [][NextRoute]_vars

---------------------------------------------------------------------------
(* Properties of the screen route *)

Handled == gpc = "done"

ReportFields ==
    {"screeningResults", "actualValues", "longTermSuitability", "tenbaggerPotential"}

\* Yahoo Finance delivered a non-empty price history / a quote / a rate /
\* a company name
PricesFetched == IF upstream.prices.ok THEN upstream.prices.data # <<>> ELSE FALSE

StatsFetched == IF upstream.stats.ok THEN ~IsNull(upstream.stats.data) ELSE FALSE

RateFetched == IF upstream.exchangeRate.ok THEN upstream.exchangeRate.data # 0 ELSE FALSE

NameFetched == IF upstream.companyName.ok THEN upstream.companyName.data # undefined ELSE FALSE

\* C16: GET returns a report (screeningResults, actualValues,
\* longTermSuitability, tenbaggerPotential) exactly when both the price
\* fetch and the fundamentals fetch succeed; if either fails the response
\* has status 500 and no report field; the handler always ends with a
\* response; a failed exchange-rate or company-name fetch never prevents
\* the report (the rate is then 150 and the name undefined); a missing
\* symbol gives status 400 before any fetch is started.
C16_ReportIffBothFetchesSucceed ==
    /\ gpc \in {"start", "awaiting"} => ENABLED NextRoute
    /\ Handled =>
          /\ response.status \in {200, 400, 500}
          /\ (response.status = 400) <=> Falsy(requestSymbol)
          /\ response.status = 400 =>
                /\ settled = NoRecord
                /\ ReportFields \cap DOMAIN response.body = {}
          /\ ~Falsy(requestSymbol) =>
                /\ (response.status = 200) <=> (PricesFetched /\ StatsFetched)
                /\ response.status = 200 => ReportFields \subseteq DOMAIN response.body
                /\ response.status = 500 =>
                      /\ ReportFields \cap DOMAIN response.body = {}
                      /\ "error" \in DOMAIN response.body
                /\ (response.status = 200 /\ isJapanese /\ ~RateFetched) => exchangeRate = 150
                /\ (response.status = 200 /\ ~NameFetched) =>
                      "companyName" \notin DOMAIN response.body

\* a Japanese four-digit code whose rate and name requests both fail still
\* gets its report, converted at 150
C16_Witness ==
    /\ Handled
    /\ requestSymbol = [text |-> <<"7", "2", "0", "3", ".", "T">>]
    /\ isJapanese
    /\ ~upstream.exchangeRate.ok
    /\ ~upstream.companyName.ok
    /\ response.status = 200
    /\ ReportFields \subseteq DOMAIN response.body
    /\ exchangeRate = 150
    /\ "exchangeRate" \in DOMAIN response.body
    /\ response.body.exchangeRate.value = 150
    /\ response.body.actualValues.marketCap = 500 * 150

---------------------------------------------------------------------------
(* The screening grid on and next to its tier boundaries *)

\* snapshots whose ROE, ROA, equity ratio and EPS lie on a boundary of the
\* grid, just below one, or at zero; the other fields are the scenario's
BoundaryStats ==
    { [ScenarioStat EXCEPT !.returnOnEquity = e, !.roa = a,
                           !.equityRatio = q, !.eps = p] :
        e \in {0, 4, 5, 9, 10, 14, 15},
        a \in {0, 2, 3, 4, 5, 7, 8},
        q \in {0, Dec(19, 99), Dec(20, 0), Dec(39, 99), Dec(40, 0), Dec(59, 99), Dec(60, 0)},
        p \in {0, Dec(0, 9), Dec(0, 10), Dec(0, 49), Dec(0, 50), Dec(0, 99), Dec(1, 0),
               Dec(9, 99), Dec(10, 0), Dec(49, 99), Dec(50, 0), Dec(99, 99), Dec(100, 0)} }

InitTiers ==
    /\ statsValue \in BoundaryStats
    /\ reportCurrency \in {"USD", "JPY"}
    /\ exchangeRate = IF reportCurrency = "JPY" THEN 150 ELSE 1
    /\ screening = NoRecord
    /\ reportedResults = NoRecord
    /\ reportedValues = NoRecord
    /\ longTermSuitability = "none"
    /\ spc = "start"
    /\ IdleResample
    /\ IdleTenbagger
    /\ IdleCalc
    /\ IdleSymbol
    /\ IdleRoute
    /\ IdleCache
    /\ IdlePage
    /\ IdlePricesRoute
    /\ IdleSector

SpecTiers == InitTiers /\ [][NextScreen]_vars

\* the tier of a value whose three lower bounds are inclusive
TierFrom(value, excellent, good, normal) ==
    IF value >= excellent THEN Excellent
    ELSE IF value >= good THEN Good
    ELSE IF value >= normal THEN Normal
    ELSE Poor

C19_BucketsWithinWeights ==
    \A n \in Calls :
        LET r             == tenbaggerCalls[n].result
            growth        == growthPart(tenbaggerCalls[n].revenueGrowth).points
            marketCap     == marketCapPart(reportedValues.marketCap, isJapanese).points
            pricePosition == pricePositionPart(priceWindow).points
            roe           == roePart(reportedValues.roe).points
            cfMargin      == cfMarginPart(reportedValues.positiveCF).points
            per           == perPart(reportedValues.per).points
        IN  /\ r.score = growth + marketCap + pricePosition + roe + cfMargin + per
            /\ r.score <= 100
            /\ growth <= 40
            /\ marketCap <= 20
            /\ pricePosition <= 15
            /\ roe + cfMargin <= 15
            /\ roe + cfMargin >= 0
            /\ per <= 10
            /\ Lt(reportedValues.roe, 0) => roe = 0

\* every bucket at its weight: the score is 100
C19_Witness ==
    /\ Len(tenbaggerCalls) = 1
    /\ HasGrowth(1)
    /\ growthPart(tenbaggerCalls[1].revenueGrowth).points = 40
    /\ roePart(reportedValues.roe).points + cfMarginPart(reportedValues.positiveCF).points = 15
    /\ tenbaggerCalls[1].result.score = 100
    /\ tenbaggerCalls[1].result.rating = Excellent

---------------------------------------------------------------------------
(* evaluateTenbaggerPotential on inputs that sit on, just below and just   *)
(* above the bounds of the market-cap and PER bands                        *)

\* market caps in units of 1e8: 0.1B, 15B, 200B and 1000B are 1, 150, 2000
\* and 10000; 100, 3000, 10000 and 50000 oku are themselves
BandCaps ==
    {0, 1, 2, 99, 100, 101, 149, 150, 151, 1999, 2000, 2001,
     2999, 3000, 3001, 9999, 10000, 10001, 49999, 50000, 50001}

BandPers == {0 - 5, 0, 1, 25, 26, 50, 51, 100, 101, 200, 201}

BandActualValues ==
    { [ActualValues(ScenarioStat, FALSE, 1) EXCEPT !.marketCap = m, !.per = <<p, 1>>] :
        m \in BandCaps, p \in BandPers }

InitBands ==
    /\ reportedValues \in BandActualValues
    /\ isJapanese \in BOOLEAN
    /\ priceWindow \in { [minPrice |-> 100, maxPrice |-> 700, currentPrice |-> 150],
                         [minPrice |-> 100, maxPrice |-> 700, currentPrice |-> 600] }
    /\ recentGrowth = 20
    /\ tenbaggerCalls = <<>>
    /\ statsValue = ScenarioStat
    /\ reportCurrency = IF isJapanese THEN "JPY" ELSE "USD"
    /\ exchangeRate = 1
    /\ screening = NoRecord
    /\ reportedResults = ProjectScreeningResults(screenStocks(<<ScenarioStat>>, "USD")[1])
    /\ longTermSuitability = "none"
    /\ spc = "idle"
    /\ IdleResample
    /\ IdleCalc
    /\ IdleSymbol
    /\ IdleRoute
    /\ IdleCache
    /\ IdlePage
    /\ IdlePricesRoute
    /\ IdleSector

SpecBands == InitBands /\ [][NextTenbagger]_vars

\* what the market-cap sub-factor added in call n: the score less the
\* other contributions
MarketCapContribution(n) ==
    tenbaggerCalls[n].result.score
        - growthPart(tenbaggerCalls[n].revenueGrowth).points
        - pricePositionPart(priceWindow).points
        - roePart(reportedValues.roe).points
        - cfMarginPart(reportedValues.positiveCF).points
        - perPart(reportedValues.per).points

\* the bands as half-open intervals, the shared bound going to the band
\* below it in size
CapBand(cap, b1, b2, b3, b4) ==
    IF Lt(cap, b1) THEN "tiny"
    ELSE IF Le(cap, b2) THEN "top"
    ELSE IF Le(cap, b3) THEN "second"
    ELSE IF Le(cap, b4) THEN "third"
    ELSE "huge"

\* C21: the market-cap contribution is +20 for 0.1B-15B, +15 up to 200B,
\* +8 up to 1000B, -12 above and -3 below 0.1B in USD, and +20 for
\* 100-3000 oku, +15 up to 10000, +8 up to 50000, -8 above and -3 below
\* 100 in JPY; a cap on a shared bound takes the higher-scoring band, and
\* a cap outside the top band adds strictly less than one inside it.
C21_MarketCapSweetSpot ==
    \A n \in Calls :
        LET added == MarketCapContribution(n)
            band  == IF isJapanese
                     THEN CapBand(InOku(reportedValues.marketCap),
                                  Dec(100, 0), Dec(3000, 0), Dec(10000, 0), Dec(50000, 0))
                     ELSE CapBand(InBillion(reportedValues.marketCap),
                                  Dec(0, 10), Dec(15, 0), Dec(200, 0), Dec(1000, 0))
        IN  /\ added = CASE band = "top"    -> 20
                         [] band = "second" -> 15
                         [] band = "third"  -> 8
                         [] band = "huge"   -> IF isJapanese THEN 0 - 8 ELSE 0 - 12
                         [] band = "tiny"   -> 0 - 3
            /\ (band = "top") <=> (added = 20)
            /\ band # "top" => added < 20

\* 15B, the bound shared by the two best USD bands, adds 20, and 3000 oku
\* does so for JPY in the next run
C21_Witness ==
    /\ Len(tenbaggerCalls) = 2
    /\ reportedValues.marketCap \in {150, 3000}
    /\ isJapanese = (reportedValues.marketCap = 3000)
    /\ MarketCapContribution(1) = 20
    /\ MarketCapContribution(2) = 20

\* what the PER sub-factor added in call n
PerContribution(n) ==
    tenbaggerCalls[n].result.score
        - growthPart(tenbaggerCalls[n].revenueGrowth).points
        - marketCapPart(reportedValues.marketCap, isJapanese).points
        - pricePositionPart(priceWindow).points
        - roePart(reportedValues.roe).points
        - cfMarginPart(reportedValues.positiveCF).points

\* the PER contribution as a step function of a positive PER
PerSteps(per) ==
    IF Le(per, Dec(25, 0)) THEN 10
    ELSE IF Le(per, Dec(50, 0)) THEN 5
    ELSE IF Le(per, Dec(100, 0)) THEN 2
    ELSE IF Le(per, Dec(200, 0)) THEN 0 - 2
    ELSE 0 - 5

\* C22: the PER contribution is +10 for every PER with 0 < PER <= 25, +5
\* up to 50, +2 up to 100, -2 up to 200 and -5 beyond; it never increases
\* as PER rises above 0, and it is negative exactly when PER > 100.
C22_PerValuation ==
    \A n \in Calls :
        LET per   == reportedValues.per
            added == PerContribution(n)
        IN  /\ Gt(per, 0) => added = PerSteps(per)
            /\ (Gt(per, 0) /\ Le(per, Dec(25, 0))) => added = 10
            /\ added <= 10
            /\ \A p \in BandPers :
                  (Gt(per, 0) /\ Ge(<<p, 1>>, per[1] * 100)) => PerSteps(<<p, 1>>) <= added
            /\ (added < 0) <=> Gt(per, Dec(100, 0))

\* a PER of exactly 100 still adds 2
C22_Witness ==
    /\ Len(tenbaggerCalls) = 2
    /\ reportedValues.per = <<100, 1>>
    /\ PerContribution(1) = 2
    /\ PerContribution(2) = 2

---------------------------------------------------------------------------
(* The price position the screen route hands to evaluateTenbaggerPotential *)

Reported == Handled /\ response.status = 200

\* what the price-position sub-factor added in call n
PricePositionContribution(n) ==
    tenbaggerCalls[n].result.score
        - growthPart(tenbaggerCalls[n].revenueGrowth).points
        - marketCapPart(reportedValues.marketCap, isJapanese).points
        - roePart(reportedValues.roe).points
        - cfMarginPart(reportedValues.positiveCF).points
        - perPart(reportedValues.per).points

\* the contribution as a step function of the multiple
PriceSteps(multiple) ==
    IF Lt(multiple, Dec(1, 80)) THEN 15
    ELSE IF Lt(multiple, Dec(3, 0)) THEN 10
    ELSE IF Lt(multiple, Dec(5, 0)) THEN 5
    ELSE 0 - 2

\* multiples, in hundredths, the contribution is compared across
SampleMultiples == {100, 179, 180, 181, 299, 300, 301, 499, 500, 501, 1000}

\* C23: with multiple = currentPrice / minPrice, minPrice being the
\* 52-week low, or the minimum of the price window when the 52-week low is
\* 0, the price position adds 15 for a multiple below 1.8, 10 below 3, 5
\* below 5 and -2 otherwise; the contribution never increases with the
\* multiple and is negative exactly when the multiple is at least 5.
C23_PricePosition ==
    Reported =>
        LET pricesValue == settled.prices.value
            multiple    == <<priceWindow.currentPrice, priceWindow.minPrice>>
            added       == PricePositionContribution(1)
        IN  /\ Len(tenbaggerCalls) = 1
            /\ priceWindow.currentPrice = pricesValue[Len(pricesValue)].price
            /\ priceWindow.minPrice =
                  IF statsValue.fiftyTwoWeekLow = 0
                  THEN response.body.minPrice ELSE statsValue.fiftyTwoWeekLow
            /\ added = PriceSteps(multiple)
            /\ \A m \in SampleMultiples :
                  /\ Le(multiple, m) => PriceSteps(Num(m)) <= added
                  /\ Ge(multiple, m) => PriceSteps(Num(m)) >= added
            /\ (added < 0) <=> Ge(multiple, Dec(5, 0))

\* without a 52-week low the minimum of the window, 100, is the base, and
\* a latest price of 500 is exactly five times it
C23_Witness ==
    /\ Reported
    /\ statsValue.fiftyTwoWeekLow = 0
    /\ priceWindow = [minPrice |-> 100, maxPrice |-> 500, currentPrice |-> 500]
    /\ PricePositionContribution(1) = 0 - 2

---------------------------------------------------------------------------
(* SimpleCache: a Map with a fixed time to live *)

MaxOps == 3

\* private readonly TTL = 5 * 60 * 1000
TTL == 5 * 60 * 1000

CacheKeys == {"screening_AAPL", "screening_7203.T"}

CacheData == {[rating |-> "first"], [rating |-> "second"]}

\* the time that passes before a call: none, exactly the TTL, and one
\* millisecond more
Elapsed == {0, TTL, TTL + 1}

\* Map.prototype.set and Map.prototype.delete on the map m
MapSet(m, key, entry) ==
    [k \in DOMAIN m \cup {key} |-> IF k = key THEN entry ELSE m[k]]
MapDelete(m, key) == [k \in DOMAIN m \ {key} |-> m[k]]

\* if (age > this.TTL)
expiredAtTTL(age) == age >= TTL
expired(age) == age > TTL

\* get(key) at the time t: the value returned and the map it leaves
cacheGet(m, key, t) ==
    IF key \notin DOMAIN m THEN [returned |-> null, map |-> m]
    ELSE LET entry == m[key]
             age   == t - entry.timestamp
         IN  IF expired(age)
             THEN [returned |-> null, map |-> MapDelete(m, key)]
             ELSE [returned |-> entry.data, map |-> m]

\* set(key, data) at the time t
cacheSet(m, key, data, t) == MapSet(m, key, [data |-> data, timestamp |-> t])

InitCache ==
    /\ cache = <<>>
    /\ now = 0
    /\ cacheLog = <<>>
    /\ IdleResample
    /\ IdleScreen
    /\ IdleTenbagger
    /\ IdleCalc
    /\ IdleSymbol
    /\ IdleRoute
    /\ IdlePage
    /\ IdlePricesRoute
    /\ IdleSector

OthersIdleForCache ==
    UNCHANGED <<resampleVars, screenVars, tenbaggerVars, calcVars, symbolVars, routeVars, pageVars, pricesRouteVars, sectorVars>>

Get(key, elapsed) ==
    /\ Len(cacheLog) < MaxOps
    /\ now' = now + elapsed
    /\ LET got == cacheGet(cache, key, now')
       IN  /\ cache' = got.map
           /\ cacheLog' = Append(cacheLog, [op |-> "get", key |-> key, time |-> now',
                                            returned |-> got.returned])
    /\ OthersIdleForCache

Set(key, data, elapsed) ==
    /\ Len(cacheLog) < MaxOps
    /\ now' = now + elapsed
    /\ cache' = cacheSet(cache, key, data, now')
    /\ cacheLog' = Append(cacheLog, [op |-> "set", key |-> key, time |-> now',
                                     data |-> data])
    /\ OthersIdleForCache

Clear(elapsed) ==
    /\ Len(cacheLog) < MaxOps
    /\ now' = now + elapsed
    /\ cache' = <<>>
    /\ cacheLog' = Append(cacheLog, [op |-> "clear", time |-> now'])
    /\ OthersIdleForCache

NextCache ==
    \/ \E key \in CacheKeys, elapsed \in Elapsed : Get(key, elapsed)
    \/ \E key \in CacheKeys, data \in CacheData, elapsed \in Elapsed : Set(key, data, elapsed)
    \/ \E elapsed \in Elapsed : Clear(elapsed)

SpecCache == InitCache /\ [][NextCache]_vars

\* the sets of key before call i that no clear has followed
LiveSets(i, key) ==
    { j \in 1..(i - 1) :
        /\ cacheLog[j].op = "set"
        /\ cacheLog[j].key = key
        /\ \A c \in (j + 1)..(i - 1) : cacheLog[c].op # "clear" }

Latest(S) == CHOOSE j \in S : \A k \in S : k <= j

\* C24: get(key) returns the value of the most recent set(key) if that set
\* happened at most TTL ago and no clear followed it, and null otherwise;
\* it never returns a value older than TTL, the get that finds an expired
\* entry removes it, and a set on an existing key replaces the value and
\* restarts its TTL.
C24_CacheFreshness ==
    /\ \A i \in 1..Len(cacheLog) :
          cacheLog[i].op = "get" =>
              LET sets == LiveSets(i, cacheLog[i].key)
              IN  IF sets # {} /\ cacheLog[i].time - cacheLog[Latest(sets)].time <= TTL
                  THEN cacheLog[i].returned = cacheLog[Latest(sets)].data
                  ELSE cacheLog[i].returned = null
    /\ cacheLog # <<>> =>
          LET last == cacheLog[Len(cacheLog)]
          IN  /\ (last.op = "get" /\ last.returned = null) => last.key \notin DOMAIN cache
              /\ last.op = "set" =>
                    cache[last.key] = [data |-> last.data, timestamp |-> last.time]
              /\ last.op = "clear" => DOMAIN cache = {}
    /\ \A key \in DOMAIN cache : cache[key].timestamp <= now

\* a value is still returned when it is exactly TTL old, and a later get
\* returns null and removes the entry
C24_Witness ==
    /\ Len(cacheLog) = 3
    /\ cacheLog[1].op = "set"
    /\ cacheLog[2].op = "get" /\ cacheLog[2].key = cacheLog[1].key
    /\ cacheLog[2].time - cacheLog[1].time = TTL
    /\ cacheLog[2].returned = cacheLog[1].data
    /\ cacheLog[3].op = "get" /\ cacheLog[3].key = cacheLog[1].key
    /\ cacheLog[3].time - cacheLog[1].time > TTL
    /\ cacheLog[3].returned = null
    /\ cacheLog[1].key \notin DOMAIN cache

---------------------------------------------------------------------------
(* What the screening grid and the composite score are given by the route *)

\* C25: for a Japanese symbol the marketCap and eps reported in
\* actualValues and handed to evaluateTenbaggerPotential are the very
\* quantities screenStocks rated, whether or not the raw market cap is
\* below 1e11.
C25_GridAndScoreSameValues ==
    (Reported /\ isJapanese) =>
        \* screenStocks rates stat.marketCap and stat.eps || 0
        /\ reportedValues.marketCap = statsValue.marketCap
        /\ reportedValues.eps = OrZero(Num(statsValue.eps))
        /\ screening.marketCap =
              marketCapRating([marketCap |-> reportedValues.marketCap], "JPY")


\* C26: the route builds the growth input with recentGrowth equal to cagr,
\* so whenever growth data is present the acceleration component adds
\* exactly 5 (never 10, 0 or -10); a reported revenueGrowth of exactly 0 is
\* handled as missing growth data and the growth bucket adds 0.
C26_AccelerationIsAlwaysFive ==
    Reported =>
        LET call == tenbaggerCalls[1]
            raw  == statsValue.revenueGrowth
        IN  /\ raw # 0 =>
                  /\ HasGrowth(1)
                  /\ call.revenueGrowth.cagr = raw
                  /\ call.revenueGrowth.recentGrowth = call.revenueGrowth.cagr
                  /\ call.result.score - OtherContributions - cagrPart(raw).points = 5
                  /\ SubFactorsOf(call.result.details)[2] = "recent"
                  /\ call.result.details[2][1] = Good
            /\ raw = 0 =>
                  /\ ~HasGrowth(1)
                  /\ call.result.score = OtherContributions
                  /\ call.result.details[1] = <<Poor, "growth">>

\* a revenue that shrinks by 30% still earns the 5 points of a kept-up
\* growth
C26_Witness ==
    /\ Reported
    /\ statsValue.revenueGrowth = 0 - 30
    /\ HasGrowth(1)
    /\ tenbaggerCalls[1].result.score = OtherContributions + 1 + 5

---------------------------------------------------------------------------
(* The page component Home: the search box with its debounced search, the  *)
(* timeframe switch and the loading of prices                              *)

MaxEvents == 3

MaxClock == 1000

\* setTimeout(..., 500)
Debounce == 500

\* Time passes in half debounce periods, so that an event can fall inside
\* the debounce window as well as at and after its end.
Step == Debounce \div 2

\* what the user can type into the search box
InputTexts == {"", "A", "AM", "AAPL"}

Timeframes == {"daily", "weekly", "monthly"}

\* the symbols /api/search answers for the keywords
SearchResults(keywords) ==
    IF keywords = "A" THEN <<"AAPL", "AMZN">>
    ELSE IF keywords = "AM" THEN <<"AMZN">>
    ELSE <<"AAPL">>

\* the body /api/prices serves for a selection
PricesFor(sym, frame) == [symbol |-> sym, timeframe |-> frame]

\* the page after it is mounted: the search effect found inputValue empty,
\* and the price effect has issued the request for AAPL, daily
InitPage ==
    /\ selectedSymbol = "AAPL"
    /\ timeframe = "daily"
    /\ pricesState = PricesFor("", "")
    /\ loading = TRUE
    /\ pageError = null
    /\ inputValue = ""
    /\ candidates = <<>>
    /\ timer = NoRecord
    /\ searchesInFlight = {}
    /\ pricesInFlight = {1}
    /\ priceRequests = << [symbol |-> "AAPL", timeframe |-> "daily", outcome |-> "pending"] >>
    /\ searchLog = <<>>
    /\ pageClock = 0
    /\ inputChangedAt = 0
    /\ picked = FALSE
    /\ userEvents = 0
    /\ IdleResample
    /\ IdleScreen
    /\ IdleTenbagger
    /\ IdleCalc
    /\ IdleSymbol
    /\ IdleRoute
    /\ IdleCache
    /\ IdlePricesRoute
    /\ IdleSector

OthersIdleForPage ==
    UNCHANGED <<resampleVars, screenVars, tenbaggerVars, calcVars, symbolVars, routeVars,
                cacheVars, pricesRouteVars, sectorVars>>

\* the price effect: setLoading(true), setError(null), fetch(/api/prices)
IssuePriceRequest(sym, frame) ==
    /\ loading' = TRUE
    /\ pageError' = null
    /\ priceRequests' = Append(priceRequests,
                               [symbol |-> sym, timeframe |-> frame, outcome |-> "pending"])
    /\ pricesInFlight' = pricesInFlight \cup {Len(priceRequests) + 1}

\* onChange of the search box, and the search effect that follows it: the
\* cleanup clears the pending timer, then the effect either empties the
\* candidates or starts a new timer
Type(text) ==
    /\ userEvents < MaxEvents
    /\ text # inputValue
    /\ userEvents' = userEvents + 1
    /\ inputValue' = text
    /\ inputChangedAt' = pageClock
    /\ picked' = FALSE
    /\ IF text = "" \/ text = selectedSymbol
       THEN /\ candidates' = <<>>
            /\ timer' = NoRecord
       ELSE /\ candidates' = candidates
            /\ timer' = [keywords |-> text, due |-> pageClock + Debounce]
    /\ UNCHANGED <<selectedSymbol, timeframe, pricesState, loading, pageError,
                   searchesInFlight, pricesInFlight, priceRequests, searchLog, pageClock, pricesRouteVars, sectorVars>>
    /\ OthersIdleForPage

\* time passes; a timer that is due runs before more time passes
Advance ==
    /\ pageClock < MaxClock
    /\ timer # NoRecord => timer.due > pageClock
    /\ pageClock' = pageClock + Step
    /\ UNCHANGED <<selectedSymbol, timeframe, pricesState, loading, pageError, inputValue,
                   candidates, timer, searchesInFlight, pricesInFlight, priceRequests,
                   searchLog, inputChangedAt, picked, userEvents, pricesRouteVars, sectorVars>>
    /\ OthersIdleForPage

\* the callback of setTimeout: fetch(/api/search?keywords=inputValue)
TimerFires ==
    /\ timer # NoRecord
    /\ timer.due <= pageClock
    /\ searchLog' = Append(searchLog,
                           [keywords |-> timer.keywords, issuedAt |-> pageClock,
                            inputChangedAt |-> inputChangedAt,
                            inputValue |-> inputValue, symbol |-> selectedSymbol])
    /\ searchesInFlight' = searchesInFlight \cup {Len(searchLog) + 1}
    /\ timer' = NoRecord
    /\ UNCHANGED <<selectedSymbol, timeframe, pricesState, loading, pageError, inputValue,
                   candidates, pricesInFlight, priceRequests, pageClock, inputChangedAt,
                   picked, userEvents, pricesRouteVars, sectorVars>>
    /\ OthersIdleForPage

\* .then(data => setCandidates(data)) and .catch(() => setCandidates([]))
SearchResponds(id, ok) ==
    /\ id \in searchesInFlight
    /\ searchesInFlight' = searchesInFlight \ {id}
    /\ candidates' = IF ok THEN SearchResults(searchLog[id].keywords) ELSE <<>>
    /\ UNCHANGED <<selectedSymbol, timeframe, pricesState, loading, pageError, inputValue,
                   timer, pricesInFlight, priceRequests, searchLog, pageClock,
                   inputChangedAt, picked, userEvents, pricesRouteVars, sectorVars>>
    /\ OthersIdleForPage

\* a click on a candidate: handleSelect, then the effects whose
\* dependencies changed
handleSelect(item) ==
    /\ userEvents < MaxEvents
    /\ \E i \in 1..Len(candidates) : candidates[i] = item
    /\ userEvents' = userEvents + 1
    /\ selectedSymbol' = item
    /\ inputValue' = item
    /\ candidates' = <<>>
    /\ picked' = TRUE
    /\ inputChangedAt' = IF item # inputValue THEN pageClock ELSE inputChangedAt
    \* the search effect finds inputValue === symbol; its cleanup has cleared
    \* the timer
    /\ timer' = IF item # inputValue \/ item # selectedSymbol THEN NoRecord ELSE timer
    /\ IF item # selectedSymbol
       THEN IssuePriceRequest(item, timeframe)
       ELSE UNCHANGED <<loading, pageError, priceRequests, pricesInFlight, pricesRouteVars, sectorVars>>
    /\ UNCHANGED <<timeframe, pricesState, searchesInFlight, searchLog, pageClock, pricesRouteVars, sectorVars>>
    /\ OthersIdleForPage

\* a click on a timeframe radio button, which is disabled while loading
SetTimeframe(value) ==
    /\ userEvents < MaxEvents
    /\ ~loading
    /\ value # timeframe
    /\ userEvents' = userEvents + 1
    /\ timeframe' = value
    /\ IssuePriceRequest(selectedSymbol, value)
    /\ UNCHANGED <<selectedSymbol, pricesState, inputValue, candidates, timer,
                   searchesInFlight, searchLog, pageClock, inputChangedAt, picked, pricesRouteVars, sectorVars>>
    /\ OthersIdleForPage

\* the promise chain of the price effect: setPrices(data) and
\* setError(null), or setError(message); finally setLoading(false)
PricesRespond(id, ok) ==
    /\ id \in pricesInFlight
    /\ pricesInFlight' = pricesInFlight \ {id}
    /\ priceRequests' = [priceRequests EXCEPT
                            ![id].outcome = IF ok THEN "fulfilled" ELSE "rejected"]
    /\ IF ok
       THEN /\ pricesState' = PricesFor(priceRequests[id].symbol, priceRequests[id].timeframe)
            /\ pageError' = null
       ELSE /\ pricesState' = pricesState
            /\ pageError' = [message |-> "failed to fetch the data"]
    /\ loading' = FALSE
    /\ UNCHANGED <<selectedSymbol, timeframe, inputValue, candidates, timer,
                   searchesInFlight, searchLog, pageClock, inputChangedAt, picked,
                   userEvents, pricesRouteVars, sectorVars>>
    /\ OthersIdleForPage

NextPage ==
    \/ \E text \in InputTexts : Type(text)
    \/ Advance
    \/ TimerFires
    \/ \E id \in searchesInFlight, ok \in BOOLEAN : SearchResponds(id, ok)
    \/ \E item \in {"AAPL", "AMZN"} : handleSelect(item)
    \/ \E value \in Timeframes : SetTimeframe(value)
    \/ \E id \in pricesInFlight, ok \in BOOLEAN : PricesRespond(id, ok)

SpecPage == InitPage /\ [][NextPage]_vars

\* C27: once every issued /api/prices request has settled, prices holds
\* the response of the most recently issued request, that of the current
\* symbol and timeframe (stated for a latest request that succeeded).
C27_LatestPricesWin ==
    LET latest == priceRequests[Len(priceRequests)]
    IN  (pricesInFlight = {} /\ latest.outcome = "fulfilled") =>
            /\ latest.symbol = selectedSymbol
            /\ latest.timeframe = timeframe
            /\ pricesState = PricesFor(selectedSymbol, timeframe)


\* every search request was issued at least 500 ms after the input last
\* changed, for the input as it stood, which was neither empty nor the
\* current symbol
SearchOnlyAfterDebounce ==
    \A i \in 1..Len(searchLog) :
        LET issued == searchLog[i]
        IN  /\ issued.issuedAt - issued.inputChangedAt >= Debounce
            /\ issued.keywords = issued.inputValue
            /\ issued.keywords # ""
            /\ issued.keywords # issued.symbol

\* C28: a search request is issued only after the input has stayed
\* unchanged for 500 ms and never for an empty input or one equal to the
\* current symbol; after handleSelect picked a candidate the candidate
\* list stays empty until the user changes the input again, also when a
\* search response that was in flight arrives afterwards.
C28_DropdownStaysClosed ==
    /\ SearchOnlyAfterDebounce
    /\ picked => candidates = <<>>

---------------------------------------------------------------------------
(* The prices route GET *)

\* the query parameters: a missing parameter is null
TimeframeParams ==
    { null, [text |-> "daily"], [text |-> "weekly"], [text |-> "monthly"],
      [text |-> "yearly"] }

\* yahooFinance.historical throws, or answers nothing, an empty list, or
\* the closes of three days of one week that spans two months
HistoricalAnswers ==
    { failure,
      Answer(null),
      Answer([rows |-> <<>>]),
      Answer([rows |-> << [date |-> <<2024, 1, 29>>, close |-> 150],
                          [date |-> <<2024, 1, 31>>, close |-> 220],
                          [date |-> <<2024, 2, 1>>,  close |-> 185] >>]) }

\* searchParams.get("timeframe") ?? "daily"
timeframeOrDaily(param) == IF IsNull(param) THEN "daily" ELSE param.text

\* the switch over timeframe
finalResultWeeklyByDefault(frame, allPrices) ==
    IF frame = "monthly" THEN toMonthly(allPrices)
    ELSE IF frame = "daily" THEN allPrices
    ELSE toWeekly(allPrices)
finalResult(frame, allPrices) ==
    IF frame = "weekly" THEN toWeekly(allPrices)
    ELSE IF frame = "monthly" THEN toMonthly(allPrices)
    ELSE allPrices

\* status: error.code === "RATE_LIMIT" ? 429 : 400
statusOfCode(code) == IF code = "RATE_LIMIT" THEN 429 ELSE 400

InitPricesRoute ==
    /\ pricesRequest \in [symbol : RequestSymbols, timeframe : TimeframeParams]
    /\ historical \in HistoricalAnswers
    /\ historicalSymbol = NoRecord
    /\ historicalCalls = 0
    /\ pricesResponse = NoRecord
    /\ ppc = "start"
    /\ tz \in Offsets
    /\ dailyPrices = <<>>
    /\ granularity = "none"
    /\ resampled = <<>>
    /\ resampledAgain = <<>>
    /\ rpc = "idle"
    /\ IdleScreen
    /\ IdleTenbagger
    /\ IdleCalc
    /\ IdleSymbol
    /\ IdleRoute
    /\ IdleCache
    /\ IdlePage
    /\ IdleSector

OthersIdleForPricesRoute ==
    UNCHANGED <<resampleVars, screenVars, tenbaggerVars, calcVars, symbolVars, routeVars,
                cacheVars, pageVars, sectorVars>>

\* if (!symbol) return 400
PricesGetMissingSymbol ==
    /\ ppc = "start"
    /\ Falsy(pricesRequest.symbol)
    /\ pricesResponse' = [status |-> 400, body |-> [error |-> "symbol is required"]]
    /\ ppc' = "done"
    /\ UNCHANGED <<pricesRequest, historical, historicalSymbol, historicalCalls, sectorVars>>
    /\ OthersIdleForPricesRoute

\* from the region detection to the await of yahooFinance.historical
PricesGetCallHistorical ==
    /\ ppc = "start"
    /\ ~Falsy(pricesRequest.symbol)
    /\ LET given == pricesRequest.symbol.text
       IN  historicalSymbol' = IF isJapaneseStock(given)
                               THEN normalizeJapaneseSymbol(given) ELSE given
    /\ historicalCalls' = historicalCalls + 1
    /\ ppc' = "awaiting"
    /\ UNCHANGED <<pricesRequest, historical, pricesResponse, sectorVars>>
    /\ OthersIdleForPricesRoute

PricesRespondUnchanged ==
    /\ UNCHANGED <<pricesRequest, historical, historicalSymbol, historicalCalls, sectorVars>>
    /\ OthersIdleForPricesRoute

\* yahooFinance.historical throws: the catch block answers 500
PricesGetUpstreamFailed ==
    /\ ppc = "awaiting"
    /\ ~historical.ok
    /\ pricesResponse' = [status |-> 500,
                          body   |-> [error |-> "Internal server error",
                                      details |-> "upstream error"]]
    /\ ppc' = "done"
    /\ PricesRespondUnchanged

\* !result || result.length === 0: YahooFinanceError with the code NO_DATA
PricesGetNoData ==
    /\ ppc = "awaiting"
    /\ historical.ok
    /\ IF IsNull(historical.data) THEN TRUE ELSE Len(historical.data.rows) = 0
    /\ pricesResponse' = [status |-> statusOfCode("NO_DATA"),
                          body   |-> [error |-> "No data available for symbol",
                                      code  |-> "NO_DATA"]]
    /\ ppc' = "done"
    /\ PricesRespondUnchanged

\* the history is mapped to Price[] and converted as the timeframe asks
PricesGetServe ==
    /\ ppc = "awaiting"
    /\ historical.ok
    /\ IF IsNull(historical.data) THEN FALSE ELSE Len(historical.data.rows) > 0
    /\ LET result    == historical.data.rows
           allPrices == [i \in 1..Len(result) |->
                            [symbol |-> historicalSymbol,
                             date   |-> result[i].date,
                             price  |-> result[i].close]]
       IN  pricesResponse' =
              [status |-> 200,
               body   |-> finalResult(timeframeOrDaily(pricesRequest.timeframe), allPrices)]
    /\ ppc' = "done"
    /\ PricesRespondUnchanged

NextPricesRoute ==
    \/ PricesGetMissingSymbol
    \/ PricesGetCallHistorical
    \/ PricesGetUpstreamFailed
    \/ PricesGetNoData
    \/ PricesGetServe

SpecPricesRoute == InitPricesRoute /\ [][NextPricesRoute]_vars

\* the daily list the route builds from the history
DailyList ==
    [i \in 1..Len(historical.data.rows) |->
        [symbol |-> historicalSymbol,
         date   |-> historical.data.rows[i].date,
         price  |-> historical.data.rows[i].close]]

\* C29: a missing symbol returns 400 without calling upstream; an empty
\* upstream result returns 400 with the code NO_DATA; any other upstream
\* failure returns 500; on success the body is the daily list, or toWeekly
\* or toMonthly of it for the timeframe weekly or monthly, any other
\* timeframe being served as daily; the status is never 429.
C29_PricesStatusMapping ==
    ppc = "done" =>
        LET frame == pricesRequest.timeframe
        IN  /\ pricesResponse.status # 429
            /\ Falsy(pricesRequest.symbol) =>
                  /\ pricesResponse.status = 400
                  /\ "code" \notin DOMAIN pricesResponse.body
                  /\ historicalCalls = 0
            /\ ~Falsy(pricesRequest.symbol) =>
                  /\ historicalCalls = 1
                  /\ IF ~historical.ok THEN pricesResponse.status = 500
                     ELSE IF historical.data \in {null, [rows |-> <<>>]}
                     THEN /\ pricesResponse.status = 400
                          /\ pricesResponse.body.code = "NO_DATA"
                     ELSE /\ pricesResponse.status = 200
                          /\ pricesResponse.body =
                                IF frame = [text |-> "weekly"] THEN toWeekly(DailyList)
                                ELSE IF frame = [text |-> "monthly"] THEN toMonthly(DailyList)
                                ELSE DailyList

\* the three closes of one week, asked for as 7203 and weekly, are served
\* as the single weekly point of 7203.T
C29_Witness ==
    /\ ppc = "done"
    /\ pricesResponse.status = 200
    /\ Len(historical.data.rows) = 3
    /\ pricesRequest.timeframe = [text |-> "weekly"]
    /\ Len(pricesResponse.body) = 1
    /\ pricesResponse.body[1].date = <<2024, 2, 1>>
    /\ historicalSymbol = <<"7", "2", "0", "3", ".", "T">>
    /\ pricesRequest.symbol.text = <<"7", "2", "0", "3">>

---------------------------------------------------------------------------
(* The sector aggregation script: getStockChanges for every symbol of      *)
(* SECTOR_STOCKS, the averages per sector and the rankings                 *)

\* const monthsdatacount = 20
monthsdatacount == 20

\* SECTOR_STOCKS cut down to seven sectors in the order of the table; as
\* in the table, AMZN is listed under the first sector and under the
\* consumer sector further down
SECTOR_STOCKS ==
    << [sector |-> "AI / cloud",        symbols |-> <<"MSFT", "AMZN">>],
       [sector |-> "semiconductors",    symbols |-> <<"NVDA">>],
       [sector |-> "EV / automobiles",  symbols |-> <<"TSLA">>],
       [sector |-> "finance",           symbols |-> <<"JPM">>],
       [sector |-> "healthcare",        symbols |-> <<"JNJ">>],
       [sector |-> "energy",            symbols |-> <<"XOM">>],
       [sector |-> "consumer / retail", symbols |-> <<"AMZN", "WMT">>] >>

\* [...new Set(Object.values(SECTOR_STOCKS).flat())]
uniqueSymbols == <<"MSFT", "AMZN", "NVDA", "TSLA", "JPM", "JNJ", "XOM", "WMT">>

Periods == {"change1d", "change1w", "change1m"}

\* a history of n trading days, oldest first as Yahoo Finance sends it;
\* the closes 1, 5 and 20 days before the latest are the ones that count
History(n, latest, day1, week1, month1) ==
    Answer([i \in 1..n |->
               [date  |-> CivilOf(DayNumber(<<2024, 1, 1>>) + i),
                close |-> IF i = n THEN latest
                          ELSE IF i = n - 1 THEN day1
                          ELSE IF i = n - 5 THEN week1
                          ELSE IF i = n - 20 THEN month1
                          ELSE 100]])

\* up 10% on the day, 25% on the week and down 12% on the month; down on
\* all three; and one day too short
RisingHistory == History(21, 110, 100, 88, 125)
FallingHistory == History(21, 90, 100, 120, 125)
ShortHistory == History(20, 110, 100, 88, 125)

\* ((current - past) / past) * 100; the closes offered make it a whole number
calcChange(current, past) == ((current - past) * 100) \div past

\* prices.sort((a, b) => new Date(b.date) - new Date(a.date)): newest first
RECURSIVE InsertNewestFirst(_, _)
InsertNewestFirst(sorted, p) ==
    IF sorted = <<>> THEN <<p>>
    ELSE IF DayNumber(p.date) > DayNumber(Head(sorted).date) THEN <<p>> \o sorted
    ELSE <<Head(sorted)>> \o InsertNewestFirst(Tail(sorted), p)

RECURSIVE SortNewestFirst(_)
SortNewestFirst(list) ==
    IF list = <<>> THEN <<>>
    ELSE InsertNewestFirst(SortNewestFirst(SubSeq(list, 1, Len(list) - 1)),
                           list[Len(list)])

\* getStockChanges: null for a failed fetch and for fewer than 21 points
getStockChanges(symbol, answer) ==
    LET fetched == fetchDailyPrices(symbol, answer)
    IN  IF fetched = rejected THEN null
        ELSE LET prices == SortNewestFirst(fetched.value)
             IN  IF Len(prices) < monthsdatacount + 1 THEN null
                 ELSE [symbol   |-> symbol,
                       change1d |-> calcChange(prices[1].price, prices[2].price),
                       change1w |-> calcChange(prices[1].price, prices[6].price),
                       change1m |-> calcChange(prices[1].price, prices[21].price)]

\* symbolToSector[symbol] = sector, assigned sector by sector: the sector
\* listed last wins
symbolToSector(symbol) ==
    LET listing == { i \in 1..Len(SECTOR_STOCKS) :
                        \E j \in 1..Len(SECTOR_STOCKS[i].symbols) :
                            SECTOR_STOCKS[i].symbols[j] = symbol }
    IN  IF listing = {} THEN undefined
        ELSE [text |-> SECTOR_STOCKS[CHOOSE i \in listing : \A k \in listing : k <= i].sector]

\* sectorData[sector][period]: the changes pushed for the sector
RECURSIVE ChangesOf(_, _, _)
ChangesOf(list, sector, period) ==
    IF list = <<>> THEN <<>>
    ELSE LET result == Head(list)
             rest   == ChangesOf(Tail(list), sector, period)
         IN  IF symbolToSector(result.symbol) = [text |-> sector]
             THEN <<result[period]>> \o rest ELSE rest

RECURSIVE Sum(_)
Sum(numbers) == IF numbers = <<>> THEN 0 ELSE Head(numbers) + Sum(Tail(numbers))

\* average: 0 for an empty list, else sum / length, kept as a quotient
average(numbers) ==
    IF Len(numbers) = 0 THEN <<0, 1>> ELSE <<Sum(numbers), Len(numbers)>>

SectorAveragesOf(list) ==
    [i \in 1..Len(SECTOR_STOCKS) |->
        LET sector == SECTOR_STOCKS[i].sector
        IN  [sector   |-> sector,
             change1d |-> average(ChangesOf(list, sector, "change1d")),
             change1w |-> average(ChangesOf(list, sector, "change1w")),
             change1m |-> average(ChangesOf(list, sector, "change1m"))]]

\* a < b for quotients with positive denominators
Less(a, b) == a[1] * b[2] < b[1] * a[2]

\* Array.prototype.sort is stable: an element goes in front of the first
\* one the comparator ranks strictly after it
RECURSIVE InsertRanked(_, _, _, _)
InsertRanked(sorted, s, period, descending) ==
    IF sorted = <<>> THEN <<s>>
    ELSE LET first == Head(sorted)
             ahead == IF descending THEN Less(first[period], s[period])
                      ELSE Less(s[period], first[period])
         IN  IF ahead THEN <<s>> \o sorted
             ELSE <<first>> \o InsertRanked(Tail(sorted), s, period, descending)

RECURSIVE sortBy(_, _, _)
sortBy(list, period, descending) ==
    IF list = <<>> THEN <<>>
    ELSE InsertRanked(sortBy(SubSeq(list, 1, Len(list) - 1), period, descending),
                      list[Len(list)], period, descending)

\* slice(0, 5).map(s => ({sector: s.sector, change: s[period]}))
top5(sorted, period) ==
    [i \in 1..(IF Len(sorted) < 5 THEN Len(sorted) ELSE 5) |->
        [sector |-> sorted[i].sector, change |-> sorted[i][period]]]

\* createRankings: the list is first sorted in place by change1d, down and
\* then up, and every ranking sorts a copy of it
createRankings(averages) ==
    LET inPlace == sortBy(sortBy(averages, "change1d", TRUE), "change1d", FALSE)
        Ranking(period) ==
            [rising  |-> top5(sortBy(inPlace, period, TRUE), period),
             falling |-> top5(sortBy(inPlace, period, FALSE), period)]
    IN  [day   |-> Ranking("change1d"),
         week  |-> Ranking("change1w"),
         month |-> Ranking("change1m")]

\* what Yahoo Finance can answer for the symbols
SymbolAnswers == {failure, ShortHistory, RisingHistory, FallingHistory}

InitSector ==
    /\ histories \in { [MSFT |-> a, AMZN |-> b, WMT |-> c, XOM |-> d,
                        NVDA |-> RisingHistory, TSLA |-> FallingHistory,
                        JPM |-> History(21, 105, 100, 100, 100),
                        JNJ |-> History(21, 98, 100, 100, 100)] :
                         a \in SymbolAnswers, b \in SymbolAnswers,
                         c \in SymbolAnswers, d \in SymbolAnswers }
    /\ results = <<>>
    /\ loopIndex = 1
    /\ sectorAverages = <<>>
    /\ rankings = NoRecord
    /\ mpc = "fetching"
    /\ IdleResample
    /\ IdleScreen
    /\ IdleTenbagger
    /\ IdleCalc
    /\ IdleSymbol
    /\ IdleRoute
    /\ IdleCache
    /\ IdlePage
    /\ IdlePricesRoute

OthersIdleForSector ==
    UNCHANGED <<resampleVars, screenVars, tenbaggerVars, calcVars, symbolVars, routeVars,
                cacheVars, pageVars, pricesRouteVars>>

\* one turn of the loop over uniqueSymbols
FetchNextSymbol ==
    /\ mpc = "fetching"
    /\ loopIndex <= Len(uniqueSymbols)
    /\ LET symbol == uniqueSymbols[loopIndex]
           data   == getStockChanges(symbol, histories[symbol])
       IN  results' = IF data = null THEN results ELSE Append(results, data)
    /\ loopIndex' = loopIndex + 1
    /\ UNCHANGED <<histories, sectorAverages, rankings, mpc>>
    /\ OthersIdleForSector

\* after the loop: the averages per sector, the rankings and the file
AggregateAndSave ==
    /\ mpc = "fetching"
    /\ loopIndex > Len(uniqueSymbols)
    /\ sectorAverages' = sortBy(sortBy(SectorAveragesOf(results), "change1d", TRUE),
                                "change1d", FALSE)
    /\ rankings' = createRankings(SectorAveragesOf(results))
    /\ mpc' = "done"
    /\ UNCHANGED <<histories, results, loopIndex>>
    /\ OthersIdleForSector

NextSector ==
    \/ FetchNextSymbol
    \/ AggregateAndSave

SpecSector == InitSector /\ [][NextSector]_vars

\* the symbols whose changes were fetched
FetchedSymbols == { results[i].symbol : i \in 1..Len(results) }

\* the fetched changes of the symbols a sector lists
RECURSIVE ListedChanges(_, _, _)
ListedChanges(list, symbols, period) ==
    IF list = <<>> THEN <<>>
    ELSE LET rest == ListedChanges(Tail(list), symbols, period)
         IN  IF \E j \in 1..Len(symbols) : symbols[j] = Head(list).symbol
             THEN <<Head(list)[period]>> \o rest ELSE rest

AverageOfSector(sector) ==
    LET i == CHOOSE k \in 1..Len(sectorAverages) : sectorAverages[k].sector = sector
    IN  sectorAverages[i]

SameQuotient(a, b) == a[1] * b[2] = b[1] * a[2]

\* C30: every symbol whose changes were fetched contributes to the
\* average of every sector that lists it, a symbol listed under two
\* sectors being counted in both; a symbol with fewer than 21 price
\* points or a failed fetch contributes to none; a sector with no
\* contributing symbol averages 0; each ranking holds at most 5 sectors,
\* sorted descending (rising) or ascending (falling) by the period's change.
C30_SectorAverages ==
    mpc = "done" =>
        /\ \A symbol \in DOMAIN histories :
              symbol \in FetchedSymbols <=>
                  (histories[symbol].ok /\ Len(histories[symbol].data) >= 21)
        /\ \A i \in 1..Len(SECTOR_STOCKS), period \in Periods :
              LET listed == ListedChanges(results, SECTOR_STOCKS[i].symbols, period)
                  found  == AverageOfSector(SECTOR_STOCKS[i].sector)[period]
              IN  IF listed = <<>> THEN found = <<0, 1>>
                  ELSE SameQuotient(found, <<Sum(listed), Len(listed)>>)
        /\ \A span \in {"day", "week", "month"} :
              LET rising  == rankings[span].rising
                  falling == rankings[span].falling
              IN  /\ Len(rising) <= 5
                  /\ Len(falling) <= 5
                  /\ \A i \in 1..(Len(rising) - 1) :
                        ~Less(rising[i].change, rising[i + 1].change)
                  /\ \A i \in 1..(Len(falling) - 1) :
                        ~Less(falling[i + 1].change, falling[i].change)

=============================================================================
